---- MODULE Spec2Model ----
(***************************************************************************)
(* Verification model of rag-fml-chunker-demo.                             *)
(*                                                                         *)
(*  - SpecChunk   : fml_chunker.py  (normalize_* and process_fml_file)     *)
(*  - SpecSearch  : rag_stub.py     (passes_filters, topk_indices, the     *)
(*                                   index-backed search of main)          *)
(*  - SpecCompare : rag_stub.py     (item_keys_for_room and the room       *)
(*                                   comparison of main / compare_two_     *)
(*                                   room_docs)                            *)
(*  - SpecComplete, SpecTwin : rag_stub.py (room completion)               *)
(*  - SpecCompareMode : rag_stub.py (main --compare)                       *)
(*  - SpecRollup  : rag_stub.py     (aggregate_brand_type, relaxed_overlap)*)
(*  - SpecOllama  : rag_stub.py     (chat_ollama)                          *)
(*  - SpecCrumb, SpecIndex : index_chunks.py (breadcrumb, the index build) *)
(*  - SpecGuess, SpecArea  : fml_chunker.py (guess_room_type,              *)
(*                                   polygon_area)                         *)
(*                                                                         *)
(* Conventions.  A sha256 digest is treated as injective: an id is the     *)
(* canonical form of the key that is hashed.  A Python str that the code    *)
(* only copies or compares whole is a TLA+ string; one that it lowercases,  *)
(* strips, splits or searches is the sequence of its characters.  List     *)
(* positions are counted from 1.  Python's None is the string              *)
(* None for text fields and the record NoneId for ids.  A float that is a  *)
(* quotient of integers is the pair <<numerator, denominator>>, and None   *)
(* for such a float is the empty tuple NoneNum.                            *)
(***************************************************************************)
EXTENDS Integers, Sequences, FiniteSets, TLC

VARIABLES
    \* ---- fml_chunker.py ----
    in_dir,     \* the .fml files of --in_dir, in glob order
    store,      \* out_dir: path -> JSON object written there
    total,      \* main's running total of chunks written
    chunks,     \* per file of in_dir, the list normalize_project returned last
    runs,       \* how many times main has run over in_dir
    \* ---- rag_stub.py, index-backed search ----
    meta,       \* meta.jsonl rows of the loaded index, each with the attrs of
                \* the chunk file at its path
    sims_full,  \* cosine(qvec, vecs): one score per row
    search,     \* the request: filter_type, filter_kv, k
    candidates, \* main's candidates: the rows that pass the filters
    top_rel,    \* topk_indices(vecs, sims, k): positions in candidates
    top_idxs,   \* the rows main returns, best first
    spc,        \* position of the search run: idle, done or error
    \* ---- rag_stub.py, room comparison ----
    item_files, \* chunks_root/item/<iid>.json: iid -> attrs, for readable files
    RA, RB,     \* the two room documents
    exp,        \* the comparison export
    cpc,        \* position of the comparison run: idle, done or error
    \* ---- rag_stub.py, --compare mode ----
    cargs,      \* the arguments of the run: out, explain, index
    report,     \* the file named by --out, <<>> while it is not written
    ext,        \* the embedding and chat calls made so far, with their outcome
    \* ---- rag_stub.py, room completion ----
    room_files, \* chunks_root/room: the room documents, by file number
    seed,       \* the seed: a stored room or a virtual one
    creq,       \* --neighbors, --suggest, --style
    payload,    \* what complete_room_from_neighbors returned
    kpc,        \* position of the completion run: idle, done or error
    \* ---- index_chunks.py ----
    ifiles,     \* the chunk documents under --chunks, in gather_files order
    texts,      \* main's texts
    meta_lines, \* main's meta_lines
    requests,   \* the embedding requests sent so far, each with its reply
    vecs,       \* embed_texts' vecs
    index_dir,  \* the files of --out: name -> content
    ipc,        \* position of the index build
    \* ---- index_chunks.py, breadcrumb ----
    by_id,      \* build_maps' by_id
    doc,        \* the document whose breadcrumb is asked
    trail,      \* the breadcrumb returned
    bpc,        \* idle or done
    \* ---- rag_stub.py, roll-ups of two signature sets ----
    itemsA,     \* a set of (name, brand, type) signatures
    itemsB,     \* a second one
    rollup,     \* what the function applied returned
    rpc,        \* idle, or the function that was applied
    \* ---- rag_stub.py, chat_ollama ----
    chat_srv,   \* how the Ollama server answers: /api/chat, /api/generate, the streamed lines
    posts,      \* the requests posted so far
    chat_ret,   \* what chat_ollama returned
    hpc,        \* position of the call: idle, fallback, returned or raised
    \* ---- fml_chunker.py, guess_room_type ----
    item_names, \* the display names of the items inside a room
    room_type,  \* what guess_room_type returned, None before the call
    \* ---- fml_chunker.py, polygon_area ----
    pts,        \* a point sequence
    pts_area    \* polygon_area of it, <<>> before the call

chunk_vars   == <<in_dir, store, total, chunks, runs>>
search_vars  == <<meta, sims_full, search, candidates, top_rel, top_idxs, spc>>
compare_vars == <<item_files, RA, RB, exp, cpc>>
mode_vars     == <<cargs, report>>
complete_vars == <<room_files, seed, creq, payload, kpc>>
index_vars    == <<ifiles, texts, meta_lines, requests, vecs, index_dir, ipc>>
crumb_vars    == <<by_id, doc, trail, bpc>>
rollup_vars   == <<itemsA, itemsB, rollup, rpc>>
ollama_vars   == <<chat_srv, posts, chat_ret, hpc>>
guess_vars    == <<item_names, room_type>>
poly_vars     == <<pts, pts_area>>
fn_vars       == <<rollup_vars, ollama_vars, guess_vars, poly_vars>>
rest_vars     == <<mode_vars, ext, complete_vars, index_vars, crumb_vars>>
vars == <<in_dir, store, total, chunks, runs,
          meta, sims_full, search, candidates, top_rel, top_idxs, spc,
          item_files, RA, RB, exp, cpc,
          cargs, report, ext,
          room_files, seed, creq, payload, kpc,
          ifiles, texts, meta_lines, requests, vecs, index_dir, ipc,
          by_id, doc, trail, bpc,
          itemsA, itemsB, rollup, rpc,
          chat_srv, posts, chat_ret, hpc,
          item_names, room_type,
          pts, pts_area>>

(***************************************************************************)
(* Bounds of the model                                                     *)
(***************************************************************************)
MaxNodes == 6       \* files + projects' floors, designs, areas and items in in_dir
MaxFiles == 2       \* .fml files in in_dir
MaxRuns == 2        \* runs of main over the same in_dir
MaxRows == 3        \* rows of the index searched
MaxScore == 2       \* cosine scores are drawn from 0..MaxScore
MaxK == 2           \* --k is drawn from 1..MaxK
MaxFilters == 2     \* --filter_kv values given at once
MaxRoomItems == 2   \* items listed by a room document
MaxRooms == 2       \* room files under chunks_root/room
MaxNeighbors == 2   \* --neighbors is drawn from 1..MaxNeighbors
MaxTopN == 2        \* --suggest is drawn from 1..MaxTopN
MaxChain == 7       \* documents in a chain of parents

(***************************************************************************)
(* Generic helpers                                                         *)
(***************************************************************************)
None == "None"
NoneId == [kind |-> "None"]
NoneNum == << >>

Range(s) == {s[i] : i \in DOMAIN s}

Abs(n) == IF n < 0 THEN -n ELSE n

EmptyDict == [k \in {} |-> NoneId]

\* d[k] = v on a Python dict
DictSet(d, k, v) == [x \in (DOMAIN d) \cup {k} |-> IF x = k THEN v ELSE d[x]]

\* d.get(k) on a dict of ids
DictGet(d, k) == IF k \in DOMAIN d THEN d[k] ELSE NoneId

\* the dict built from <<key, value>> pairs: a later pair replaces an earlier
\* one with the same key
DictOf(pairs) ==
    [k \in {pairs[i][1] : i \in DOMAIN pairs} |->
        pairs[CHOOSE i \in DOMAIN pairs :
                /\ pairs[i][1] = k
                /\ \A j \in DOMAIN pairs : pairs[j][1] = k => j <= i][2]]

Min(a, b) == IF a <= b THEN a ELSE b

RECURSIVE SumSeq(_)
SumSeq(s) == IF s = <<>> THEN 0 ELSE Head(s) + SumSeq(Tail(s))

RECURSIVE Flatten(_)
Flatten(ss) == IF ss = <<>> THEN <<>> ELSE Head(ss) \o Flatten(Tail(ss))

(***************************************************************************)
(* fml_chunker.py : helpers                                                *)
(***************************************************************************)

\* sha(obj): digest of the canonical dump of obj
sha(obj) == [sha |-> obj]

\* sum of the shoelace terms x1*y2 - x2*y1 over the edges i..n
RECURSIVE Shoelace(_, _)
Shoelace(points, i) ==
    LET n == Len(points)
        p == points[i]
        q == points[(i % n) + 1]
    IN  IF i > n THEN 0
        ELSE (p.x * q.y - q.x * p.y) + Shoelace(points, i + 1)

\* polygon_area without the abs: the signed shoelace sum halved
polygon_area_signed(points) ==
    IF Len(points) < 3 THEN <<0, 1>>
    ELSE <<Shoelace(points, 1), 2>>

\* polygon_area: abs(s) / 2.0, as <<numerator, denominator>>
polygon_area(points) ==
    IF Len(points) < 3 THEN <<0, 1>>
    ELSE <<Abs(Shoelace(points, 1)), 2>>

\* x < (x2 - x1) * (y - y1) / (y2 - y1 + 1e-12) + x1, for integer coordinates
\* and y1 # y2.  Off the edge's line the 1e-12 does not change the outcome;
\* on it the quotient is pulled towards 0 when y2 > y1 and away from 0 when
\* y2 < y1, so the comparison is decided by the sign of the numerator.
RayLeftOf(x, y, x1, y1, x2, y2) ==
    LET num == (x2 - x1) * (y - y1)
        d   == y2 - y1
        lhs == (x - x1) * d
    IN  IF lhs = num THEN num < 0
        ELSE IF d > 0 THEN lhs < num
        ELSE lhs > num

\* the edge test of point_in_polygon for edge i
Intersects(x, y, poly, i) ==
    LET n == Len(poly)
        p == poly[i]
        q == poly[(i % n) + 1]
    IN  ((p.y > y) # (q.y > y)) /\ RayLeftOf(x, y, p.x, p.y, q.x, q.y)

\* point_in_polygon: inside flips once per intersecting edge
point_in_polygon(x, y, poly) ==
    IF Len(poly) < 3 THEN FALSE
    ELSE Cardinality({i \in 1..Len(poly) : Intersects(x, y, poly, i)}) % 2 = 1

\* units2_to_m2: area / 10000.0 when metric, else None
units2_to_m2(area_units2, use_metric) ==
    IF use_metric THEN <<area_units2[1], area_units2[2] * 10000>> ELSE NoneNum

\* json.dumps(key, sort_keys=True) of {"kind": kind, **parts}: the sorted
\* dump depends on the mapping only
CanonicalKey(pairs) == DictOf(pairs)

\* a digest that depends on the process (a salted hash)
stable_id_for_salted(kind, parts) ==
    CanonicalKey(<<<<"kind", kind>>, <<"salt", runs>>>> \o parts)

\* stable_id_for(kind, **parts); parts are <<name, value>> in the order supplied
stable_id_for(kind, parts) == CanonicalKey(<<<<"kind", kind>>>> \o parts)

(***************************************************************************)
(* fml_chunker.py : normalizers                                            *)
(***************************************************************************)

\* normalize_item taking the room for the item's parent
normalize_item_parent_room(it, parent_design_id, room_id) ==
    [chunk_id |-> stable_id_for("item", <<<<"parent", parent_design_id>>,
                                          <<"ref", it.refid>>,
                                          <<"xy", <<it.x, it.y>>>>>>),
     level    |-> "item",
     parent_id |-> room_id,
     room_id  |-> room_id,
     refid    |-> it.refid,
     position |-> [x |-> it.x, y |-> it.y, z |-> it.z],
     refs     |-> [parent_id |-> room_id],
     raw      |-> it]

\* normalize_item(it, parent_design_id, room_id)
normalize_item(it, parent_design_id, room_id) ==
    [chunk_id |-> stable_id_for("item", <<<<"parent", parent_design_id>>,
                                          <<"ref", it.refid>>,
                                          <<"xy", <<it.x, it.y>>>>>>),
     level    |-> "item",
     parent_id |-> parent_design_id,
     room_id  |-> room_id,
     refid    |-> it.refid,
     position |-> [x |-> it.x, y |-> it.y, z |-> it.z],
     refs     |-> [parent_id |-> parent_design_id],
     raw      |-> it]

\* poly = [p for p in area["poly"] if "x" in p and "y" in p]: the usable points
usable_points(area) ==
    SelectSeq(area.poly, LAMBDA p : "x" \in DOMAIN p /\ "y" \in DOMAIN p)

\* area.get("refid") or sha({"poly": poly})
area_ref_of(area) ==
    IF area.refid # None THEN [refid |-> area.refid]
    ELSE sha([poly |-> usable_points(area)])

\* the items within the bounding box of the area's usable points
inside_items_bbox(area, items) ==
    LET poly == usable_points(area)
    IN  SelectSeq(items, LAMBDA it :
            /\ \E p \in Range(poly) : p.x <= it.x
            /\ \E p \in Range(poly) : p.x >= it.x
            /\ \E p \in Range(poly) : p.y <= it.y
            /\ \E p \in Range(poly) : p.y >= it.y)

\* the items normalize_area_to_room finds inside the area's polygon, in order
inside_items(area, items) ==
    SelectSeq(items, LAMBDA it : point_in_polygon(it.x, it.y, usable_points(area)))

\* the room id normalize_area_to_room derives
room_id_of(area, design_id, floor_id, project_id) ==
    stable_id_for("room", <<<<"project", project_id>>, <<"floor", floor_id>>,
                            <<"design", design_id>>,
                            <<"area", area_ref_of(area)>>>>)

\* normalize_area_to_room: <<room_chunk, refids of the inside items that have one>>
normalize_area_to_room(area, items, use_metric, design_id, floor_id, project_id) ==
    LET area_units2 == polygon_area(usable_points(area))
        area_m2     == units2_to_m2(area_units2, use_metric)
        room_id     == room_id_of(area, design_id, floor_id, project_id)
        inside      == inside_items(area, items)
        with_ref    == SelectSeq(inside, LAMBDA it : it.refid # None)
    IN  << [chunk_id   |-> room_id,
            level      |-> "room",
            room_id    |-> room_id,
            design_id  |-> design_id,
            floor_id   |-> floor_id,
            project_id |-> project_id,
            area_m2    |-> area_m2,
            area_units2 |-> IF area_m2 = NoneNum THEN area_units2 ELSE NoneNum,
            refs       |-> [parent_id |-> design_id, area_refid |-> area_ref_of(area)],
            raw        |-> area],
           [i \in DOMAIN with_ref |-> with_ref[i].refid] >>

\* for ref in item_refs: item_to_room[ref] = room_id
RECURSIVE LinkRefs(_, _, _)
LinkRefs(item_to_room, item_refs, room_id) ==
    IF item_refs = <<>> THEN item_to_room
    ELSE LinkRefs(DictSet(item_to_room, Head(item_refs), room_id),
                  Tail(item_refs), room_id)

\* the loop over areas of normalize_design, from area i on:
\* <<room_chunks, item_to_room>>
RECURSIVE AreaLoop(_, _, _, _, _, _, _)
AreaLoop(design, did, floor_id, project_id, use_metric, i, acc) ==
    IF i > Len(design.areas) THEN acc
    ELSE LET r == normalize_area_to_room(design.areas[i], design.items, use_metric,
                                         did, floor_id, project_id)
         IN  AreaLoop(design, did, floor_id, project_id, use_metric, i + 1,
                      << Append(acc[1], r[1]),
                         LinkRefs(acc[2], r[2], r[1].room_id) >>)

\* normalize_design: the design chunk, the room chunks, the item chunks
normalize_design(design, floor_id, project_id, use_metric) ==
    LET did   == stable_id_for("design", <<<<"floor", floor_id>>,
                                           <<"name", design.name>>>>)
        loop  == AreaLoop(design, did, floor_id, project_id, use_metric, 1,
                          << <<>>, EmptyDict >>)
        room_chunks  == loop[1]
        item_to_room == loop[2]
    IN  << [chunk_id   |-> did,
            level      |-> "design",
            design_id  |-> did,
            floor_id   |-> floor_id,
            project_id |-> project_id,
            name       |-> design.name,
            refs       |-> [parent_id |-> floor_id],
            raw        |-> [name |-> design.name,
                            counts |-> [areas |-> Len(design.areas),
                                        items |-> Len(design.items)]]] >>
        \o room_chunks
        \o [i \in DOMAIN design.items |->
              normalize_item(design.items[i], did,
                             DictGet(item_to_room, design.items[i].refid))]

\* normalize_floor: the floor chunk, then each design's chunks
normalize_floor(floor, project_id, use_metric) ==
    LET fid == stable_id_for("floor", <<<<"project", project_id>>,
                                        <<"name", floor.name>>,
                                        <<"level", floor.level>>>>)
    IN  << [chunk_id   |-> fid,
            level      |-> "floor",
            floor_id   |-> fid,
            project_id |-> project_id,
            name       |-> floor.name,
            level_num  |-> floor.level,
            refs       |-> [parent_id |-> project_id],
            raw        |-> [name |-> floor.name, level |-> floor.level]] >>
        \o Flatten([i \in DOMAIN floor.designs |->
                      normalize_design(floor.designs[i], fid, project_id, use_metric)])

\* normalize_project: the project chunk, then each floor's chunks
normalize_project(fml) ==
    LET pid == stable_id_for("project", <<<<"id", fml.id>>, <<"name", fml.name>>>>)
        use_metric == fml.useMetric
    IN  << [chunk_id   |-> pid,
            level      |-> "project",
            project_id |-> pid,
            name       |-> fml.name,
            settings   |-> [useMetric |-> fml.useMetric],
            refs       |-> [parent_id |-> NoneId],
            raw        |-> [id |-> fml.id]] >>
        \o Flatten([i \in DOMAIN fml.floors |->
                      normalize_floor(fml.floors[i], pid, use_metric)])

(***************************************************************************)
(* fml_chunker.py : entry                                                  *)
(***************************************************************************)

\* write_json(path, obj): create or overwrite the file
write_json(st, path, obj) ==
    [p \in (DOMAIN st) \cup {path} |-> IF p = path THEN obj ELSE st[p]]

\* out_dir / f"{ch['chunk_id']}.json", relative to out_dir
out_file(ch) == [dir |-> ".", file |-> ch.chunk_id]

\* for ch in chunks: write_json(out_file, ch)
RECURSIVE WriteChunks(_, _)
WriteChunks(st, chs) ==
    IF chs = <<>> THEN st
    ELSE WriteChunks(write_json(st, out_file(Head(chs)), Head(chs)), Tail(chs))

\* process_fml_file(fml_path, out_dir):
\* <<out_dir afterwards, count returned, the chunks normalized>>
process_fml_file(file, st) ==
    IF ~file.parses THEN <<st, 0, <<>>>>
    ELSE LET chs == normalize_project(file.fml)
         IN  <<WriteChunks(st, chs), Len(chs), chs>>

\* the loop of main ending at the first file that does not parse
RECURSIVE MainLoop_stop_at_failure(_, _, _, _)
MainLoop_stop_at_failure(files, st, tot, lists) ==
    IF files = <<>> THEN <<st, tot, lists>>
    ELSE IF ~Head(files).parses
         THEN <<st, tot, lists \o [i \in DOMAIN files |-> <<>>]>>
         ELSE LET r == process_fml_file(Head(files), st)
              IN  MainLoop_stop_at_failure(Tail(files), r[1], tot + r[2], Append(lists, r[3]))

\* for p in glob("*.fml"): total += process_fml_file(p, out_dir)
\* <<out_dir afterwards, total, the chunk list of each file>>
RECURSIVE MainLoop(_, _, _, _)
MainLoop(files, st, tot, lists) ==
    IF files = <<>> THEN <<st, tot, lists>>
    ELSE LET r == process_fml_file(Head(files), st)
         IN  MainLoop(Tail(files), r[1], tot + r[2], Append(lists, r[3]))

\* gather_files(root): the chunk files the indexer finds under root
gather_files(st) ==
    {p \in DOMAIN st : p.dir \in {"project", "floor", "design", "room", "item"}}

(***************************************************************************)
(* fml_chunker.py : the input documents and main                           *)
(***************************************************************************)
Sq1 == << [x |-> 0, y |-> 0], [x |-> 2, y |-> 0], [x |-> 2, y |-> 2], [x |-> 0, y |-> 2] >>
Big == << [x |-> 0, y |-> 0], [x |-> 6, y |-> 0], [x |-> 6, y |-> 2], [x |-> 0, y |-> 2] >>
\* three points listed, the last without y: two usable points
Seg == << [x |-> 0, y |-> 0], [x |-> 2, y |-> 2], [x |-> 1] >>

\* items: inside Sq1 and Big (two stacked on one spot, one without refid),
\* and inside Big only
ItemValues    == { [refid |-> "r1", x |-> 1, y |-> 1, z |-> 0],
                   [refid |-> "r1", x |-> 1, y |-> 1, z |-> 1],
                   [refid |-> "r1", x |-> 5, y |-> 1, z |-> 0],
                   [refid |-> None, x |-> 1, y |-> 1, z |-> 0] }
AreaValues    == { [refid |-> None, poly |-> Sq1],
                   [refid |-> "a1", poly |-> Big],
                   [refid |-> None, poly |-> Seg] }
DesignNames   == {"D"}
FloorNames    == {"F"}
ProjectValues == [id : {1}, name : {"P"}, useMetric : BOOLEAN, floors : {<<>>}]
FileValues    == {[parses |-> FALSE]} \cup
                 {[parses |-> TRUE, fml |-> p] : p \in ProjectValues}

\* number of entities a file holds, the file included
FileNodes(file) ==
    IF ~file.parses THEN 1
    ELSE 1 + SumSeq([i \in DOMAIN file.fml.floors |->
               1 + SumSeq([j \in DOMAIN file.fml.floors[i].designs |->
                     1 + Len(file.fml.floors[i].designs[j].items)
                       + Len(file.fml.floors[i].designs[j].areas)])])

Nodes == SumSeq([f \in DOMAIN in_dir |-> FileNodes(in_dir[f])])

CanEdit == runs = 0 /\ Nodes < MaxNodes

LastFile == in_dir[Len(in_dir)]
HasFloor == in_dir # <<>> /\ LastFile.parses /\ LastFile.fml.floors # <<>>
LastFloorIx == Len(LastFile.fml.floors)
HasDesign == HasFloor /\ LastFile.fml.floors[LastFloorIx].designs # <<>>
LastDesignIx == Len(LastFile.fml.floors[LastFloorIx].designs)

\* an empty in_dir and an empty out_dir; no search or comparison is run
InitChunk ==
    /\ in_dir = <<>>
    /\ store = [p \in {} |-> NoneId]
    /\ total = 0
    /\ chunks = <<>>
    /\ runs = 0
    /\ meta = <<>> /\ sims_full = <<>> /\ search = <<>>
    /\ candidates = <<>> /\ top_rel = <<>> /\ top_idxs = <<>>
    /\ spc = "idle"
    /\ item_files = <<>> /\ RA = <<>> /\ RB = <<>> /\ exp = <<>>
    /\ cpc = "idle"
    /\ cargs = <<>> /\ report = <<>> /\ ext = <<>>
    /\ room_files = <<>> /\ seed = <<>> /\ creq = <<>> /\ payload = <<>>
    /\ kpc = "idle"
    /\ ifiles = <<>> /\ texts = <<>> /\ meta_lines = <<>> /\ requests = <<>>
    /\ vecs = <<>> /\ index_dir = <<>> /\ ipc = "idle"
    /\ by_id = <<>> /\ doc = <<>> /\ trail = <<>> /\ bpc = "idle"
    /\ pts = <<>> /\ pts_area = <<>>
    /\ item_names = <<>> /\ room_type = "None"
    /\ chat_srv = <<>> /\ posts = <<>> /\ chat_ret = <<>> /\ hpc = "idle"
    /\ itemsA = <<>> /\ itemsB = <<>> /\ rollup = <<>> /\ rpc = "idle"

\* a further .fml file appears in in_dir
AddFile ==
    /\ CanEdit /\ Len(in_dir) < MaxFiles
    /\ \E f \in FileValues : in_dir' = Append(in_dir, f)
    /\ UNCHANGED <<store, total, chunks, runs, search_vars, fn_vars, compare_vars, rest_vars>>

\* the last document gets a further floor, one level up
AddFloor ==
    /\ CanEdit /\ in_dir # <<>> /\ LastFile.parses
    /\ \E nm \in FloorNames :
         in_dir' = [in_dir EXCEPT ![Len(in_dir)].fml.floors =
                      Append(@, [name |-> nm, level |-> Len(@), designs |-> <<>>])]
    /\ UNCHANGED <<store, total, chunks, runs, search_vars, fn_vars, compare_vars, rest_vars>>

\* its last floor gets a further design, under a name not yet used on the floor
AddDesign ==
    /\ CanEdit /\ HasFloor
    /\ \E nm \in DesignNames :
         /\ \A d \in Range(LastFile.fml.floors[LastFloorIx].designs) : d.name # nm
         /\ in_dir' = [in_dir EXCEPT
                         ![Len(in_dir)].fml.floors[LastFloorIx].designs =
                           Append(@, [name |-> nm, items |-> <<>>, areas |-> <<>>])]
    /\ UNCHANGED <<store, total, chunks, runs, search_vars, fn_vars, compare_vars, rest_vars>>

\* its last design gets a further area, unlike the areas it has
AddArea ==
    /\ CanEdit /\ HasDesign
    /\ \E a \in AreaValues :
         /\ a \notin Range(LastFile.fml.floors[LastFloorIx].designs[LastDesignIx].areas)
         /\ in_dir' = [in_dir EXCEPT
                      ![Len(in_dir)].fml.floors[LastFloorIx].designs[LastDesignIx].areas
                          = Append(@, a)]
    /\ UNCHANGED <<store, total, chunks, runs, search_vars, fn_vars, compare_vars, rest_vars>>

\* its last design gets a further item
AddItem ==
    /\ CanEdit /\ HasDesign
    /\ \E it \in ItemValues :
         in_dir' = [in_dir EXCEPT
                      ![Len(in_dir)].fml.floors[LastFloorIx].designs[LastDesignIx].items
                          = Append(@, it)]
    /\ UNCHANGED <<store, total, chunks, runs, search_vars, fn_vars, compare_vars, rest_vars>>

\* main(): process every file of in_dir into out_dir
Main ==
    /\ runs < MaxRuns
    /\ in_dir # <<>>
    /\ LET r == MainLoop(in_dir, store, 0, <<>>)
       IN  /\ store' = r[1]
           /\ total' = r[2]
           /\ chunks' = r[3]
    /\ runs' = runs + 1
    /\ UNCHANGED <<in_dir, search_vars, fn_vars, compare_vars, rest_vars>>

ChunkNext ==
    \/ AddFile
    \/ AddFloor
    \/ AddDesign
    \/ AddArea
    \/ AddItem
    \/ Main

(***************************************************************************)
(* Claims about fml_chunker.py, checked under SpecChunk                    *)
(***************************************************************************)

\* the parsed documents of in_dir that the last run normalized
Parsed == {f \in DOMAIN in_dir : in_dir[f].parses}

\* the designs of in_dir: <<file, floor, design>> positions
DesignSites ==
    {s \in (DOMAIN in_dir) \X (1..MaxNodes) \X (1..MaxNodes) :
        /\ in_dir[s[1]].parses
        /\ s[2] \in DOMAIN in_dir[s[1]].fml.floors
        /\ s[3] \in DOMAIN in_dir[s[1]].fml.floors[s[2]].designs}

DesignAt(s) == in_dir[s[1]].fml.floors[s[2]].designs[s[3]]

\* the chunks normalize_design emits for the design at s in the last run
DesignChunks(s) ==
    LET fml == in_dir[s[1]].fml
        pid == chunks[s[1]][1].chunk_id
        fid == normalize_floor(fml.floors[s[2]], pid, fml.useMetric)[1].chunk_id
    IN  normalize_design(DesignAt(s), fid, pid, fml.useMetric)

\* the areas of design d whose polygon contains item it
Containing(d, it) ==
    {a \in DOMAIN d.areas : point_in_polygon(it.x, it.y, usable_points(d.areas[a]))}

\* C1: an item inside no area polygon of its design has room_id null, and an
\* item inside exactly one has the room_id of the room built from that area,
\* whatever its refid and whatever other items the design holds.
C1_RoomIdByContainment ==
    runs >= 1 =>
      \A s \in DesignSites :
        LET d   == DesignAt(s)
            out == DesignChunks(s)
        IN  \A k \in DOMAIN d.items :
              LET ch   == out[1 + Len(d.areas) + k]
                  cont == Containing(d, d.items[k])
              IN  /\ cont = {} => ch.room_id = NoneId
                  /\ Cardinality(cont) = 1 =>
                       \A a \in cont : ch.room_id = out[1 + a].chunk_id

\* the level a chunk's parent must have
ParentLevel(level) ==
    CASE level = "floor"  -> "project"
      [] level = "design" -> "floor"
      [] level = "room"   -> "design"
      [] level = "item"   -> "design"
      [] OTHER            -> "none"

\* C2: each list normalize_project returns holds exactly one project chunk,
\* whose parent reference is null; every other chunk's parent reference is
\* the chunk_id of a chunk of the same list, of the level above it.
C2_OneRootParentsResolve ==
    \A f \in DOMAIN chunks :
      LET out == chunks[f]
      IN  out # <<>> =>
            /\ Cardinality({i \in DOMAIN out : out[i].level = "project"}) = 1
            /\ \A i \in DOMAIN out :
                 IF out[i].level = "project"
                 THEN out[i].refs.parent_id = NoneId
                 ELSE /\ out[i].refs.parent_id # NoneId
                      /\ \E j \in DOMAIN out :
                           /\ out[j].chunk_id = out[i].refs.parent_id
                           /\ out[j].level = ParentLevel(out[i].level)

\* C2 witness: a run emitted a list with a chunk of each of the five levels
C2_Witness ==
    \E f \in DOMAIN chunks :
      {chunks[f][i].level : i \in DOMAIN chunks[f]}
        = {"project", "floor", "design", "room", "item"}

\* C3: the chunks of one pass have pairwise distinct chunk_ids, and the count
\* process_fml_file returns is the number of chunk files the pass leaves.
C3_DistinctIdsWriteOnce ==
    runs >= 1 =>
      /\ \A f \in DOMAIN chunks : \A i, j \in DOMAIN chunks[f] :
           i # j => chunks[f][i].chunk_id # chunks[f][j].chunk_id
      /\ (runs = 1 /\ Len(in_dir) = 1) => total = Cardinality(DOMAIN store)

\* C4: every chunk is stored at <out_dir>/<level>/<chunk_id>.json, where
\* gather_files looks for it.
C4_TypedLayout ==
    /\ \A p \in DOMAIN store :
         p = [dir |-> store[p].level, file |-> store[p].chunk_id]
    /\ gather_files(store) = DOMAIN store

KeyFields(c) ==
    CASE c.level = "project" -> [id |-> c.raw.id, name |-> c.name]
      [] c.level = "floor"   -> [project |-> c.project_id, name |-> c.name,
                                 level |-> c.level_num]
      [] c.level = "design"  -> [floor |-> c.floor_id, name |-> c.name]
      [] c.level = "room"    -> [project |-> c.project_id, floor |-> c.floor_id,
                                 design |-> c.design_id, area |-> c.refs.area_refid]
      [] OTHER               -> [parent |-> c.parent_id, ref |-> c.refid,
                                 position |-> c.position]

\* C6: stable_id_for does not depend on the order its fields are given in,
\* and two chunks of a level have the same id exactly when their key fields
\* (for an item: parent design, refid and position x, y, z) are the same.
C6_IdFromKeyFields ==
    runs >= 1 =>
      \A f \in DOMAIN chunks : \A i, j \in DOMAIN chunks[f] :
        LET a == chunks[f][i]
            b == chunks[f][j]
        IN  /\ a.level = "item" =>
                 a.chunk_id = stable_id_for("item",
                                << <<"xy", <<a.position.x, a.position.y>>>>,
                                   <<"ref", a.refid>>,
                                   <<"parent", a.parent_id>> >>)
            /\ a.level = b.level =>
                 ((a.chunk_id = b.chunk_id) <=> (KeyFields(a) = KeyFields(b)))

SpecChunk == InitChunk /\ [][ChunkNext]_vars

(***************************************************************************)
(* rag_stub.py : strings                                                   *)
(***************************************************************************)
UpperChars == << "A", "B", "C", "D", "E", "F", "G", "H", "I", "J", "K", "L", "M",
                 "N", "O", "P", "Q", "R", "S", "T", "U", "V", "W", "X", "Y", "Z" >>
LowerChars == << "a", "b", "c", "d", "e", "f", "g", "h", "i", "j", "k", "l", "m",
                 "n", "o", "p", "q", "r", "s", "t", "u", "v", "w", "x", "y", "z" >>

\* one character of str.lower()
LowerChar(c) ==
    IF \E i \in DOMAIN UpperChars : UpperChars[i] = c
    THEN LowerChars[CHOOSE i \in DOMAIN UpperChars : UpperChars[i] = c]
    ELSE c

\* s.lower()
lower(str) == [i \in DOMAIN str |-> LowerChar(str[i])]

\* s.strip(): leading and trailing blanks removed
RECURSIVE strip(_)
strip(str) ==
    IF str = <<>> THEN <<>>
    ELSE IF Head(str) = " " THEN strip(Tail(str))
    ELSE IF str[Len(str)] = " " THEN strip(SubSeq(str, 1, Len(str) - 1))
    ELSE str

\* needle in hay
Contains(needle, hay) ==
    \E i \in 0..(Len(hay) - Len(needle)) :
        SubSeq(hay, i + 1, i + Len(needle)) = needle

\* the position of the first ":" of a string that has one
ColonAt(str) ==
    CHOOSE i \in DOMAIN str : str[i] = ":" /\ \A j \in 1..(i - 1) : str[j] # ":"

(***************************************************************************)
(* rag_stub.py : filters, top-k and the index-backed search of main        *)
(***************************************************************************)

\* the dict hay of passes_filters: the attrs with lowercased keys and values,
\* then _title and _breadcrumb
hay_of(m) ==
    DictOf([i \in DOMAIN m.attrs |-> <<lower(m.attrs[i][1]), lower(m.attrs[i][2])>>]
           \o << << <<"_", "t", "i", "t", "l", "e">>, lower(m.title) >>,
                 << <<"_", "b", "r", "e", "a", "d", "c", "r", "u", "m", "b">>,
                    lower(m.breadcrumb) >> >>)

\* one turn of the loop over kv_filters: does spec pass on hay
filter_passes(hay, spec) ==
    IF ":" \notin Range(spec)
    THEN LET needle == lower(strip(spec))
         IN  \E hk \in DOMAIN hay : Contains(needle, hay[hk])
    ELSE LET k == lower(strip(SubSeq(spec, 1, ColonAt(spec) - 1)))
             v == lower(strip(SubSeq(spec, ColonAt(spec) + 1, Len(spec))))
         IN  \E hk \in DOMAIN hay : hk = k /\ Contains(v, hay[hk])

\* passes_filters(chunks_root, m, type_whitelist, kv_filters); m carries the
\* attrs that attrs_for reads from the chunk file
passes_filters(m, type_whitelist, kv_filters) ==
    IF type_whitelist # <<>> /\ m.type \notin Range(type_whitelist) THEN FALSE
    ELSE IF kv_filters = <<>> THEN TRUE
    ELSE \A i \in DOMAIN kv_filters : filter_passes(hay_of(m), kv_filters[i])

\* the permutations of 1..n
Perms(n) == {p \in [1..n -> 1..n] : \A i, j \in 1..n : i # j => p[i] # p[j]}

\* np.argpartition(a, kth): any order of the positions that puts a kth smallest
\* value at kth, nothing larger before it and nothing smaller after it
ArgPartition(a, kth) ==
    {p \in Perms(Len(a)) :
        /\ \A i \in 1..(kth - 1) : a[p[i]] <= a[p[kth]]
        /\ \A i \in (kth + 1)..Len(a) : a[p[i]] >= a[p[kth]]}

\* np.argsort(a): any order of the positions that sorts a ascending (the
\* default sort is not stable)
ArgSort(a) ==
    {q \in Perms(Len(a)) : \A i, j \in 1..Len(a) : i < j => a[q[i]] <= a[q[j]]}

\* topk_indices without the negation of the scores
topk_indices_ascending(sims, k) ==
    LET kk  == Min(k, Len(sims))
    IN  UNION { { [r \in 1..kk |-> p[q[r]]] :
                    q \in ArgSort([i \in 1..kk |-> sims[p[i]]]) } :
                p \in ArgPartition(sims, kk) }

\* topk_indices(vecs, sims, k): the lists numpy may return
topk_indices(sims, k) ==
    LET kk  == Min(k, Len(sims))
        neg == [i \in DOMAIN sims |-> 0 - sims[i]]
    IN  UNION { { [r \in 1..kk |-> p[q[r]]] :
                    q \in ArgSort([i \in 1..kk |-> neg[p[i]]]) } :
                p \in ArgPartition(neg, kk) }

\* [i for i, m in enumerate(meta) if passes_filters(...)]
candidates_of(rows, req) ==
    SelectSeq([i \in DOMAIN rows |-> i],
              LAMBDA i : passes_filters(rows[i], req.filter_type, req.filter_kv))

\* the positions returned as they are, not looked up in candidates
top_idxs_unmapped(cands, rel) == rel

\* [candidates[i] for i in top_rel]
top_idxs_of(cands, rel) == [r \in DOMAIN rel |-> cands[rel[r]]]

\* main: no row passes the filters; "No chunks matched" and a normal return
SearchNoMatch ==
    /\ spc = "idle"
    /\ candidates_of(meta, search) = <<>>
    /\ candidates' = <<>>
    /\ spc' = "done"
    /\ UNCHANGED <<meta, sims_full, search, top_rel, top_idxs, chunk_vars, compare_vars, rest_vars, fn_vars>>

\* main: rows pass, and embed raises for the query
SearchEmbedFails ==
    /\ spc = "idle"
    /\ candidates_of(meta, search) # <<>>
    /\ candidates' = candidates_of(meta, search)
    /\ spc' = "error"
    /\ UNCHANGED <<meta, sims_full, search, top_rel, top_idxs, chunk_vars, compare_vars, rest_vars, fn_vars>>

\* main: rows pass, the query is embedded, the candidates are ranked
SearchRank ==
    /\ spc = "idle"
    /\ candidates_of(meta, search) # <<>>
    /\ LET cands == candidates_of(meta, search)
           sims  == [i \in DOMAIN cands |-> sims_full[cands[i]]]
       IN  /\ candidates' = cands
           /\ \E rel \in topk_indices(sims, search.k) :
                /\ top_rel' = rel
                /\ top_idxs' = top_idxs_of(cands, rel)
    /\ spc' = "done"
    /\ UNCHANGED <<meta, sims_full, search, chunk_vars, compare_vars, rest_vars, fn_vars>>

SearchNext ==
    \/ SearchNoMatch
    \/ SearchEmbedFails
    \/ SearchRank

(***************************************************************************)
(* Inputs of the search: rows of meta.json with the attrs of their chunk   *)
(* files, --filter_kv / --filter_type / --k, and the cosine scores            *)
(***************************************************************************)
sofa == <<"s", "o", "f", "a">>
lamp == <<"l", "a", "m", "p">>
Sofa == <<"S", "o", "f", "a">>
Lamp == <<"L", "a", "m", "p">>
Den  == <<"D", "e", "n">>
name == <<"n", "a", "m", "e">>
Name == <<"N", "a", "m", "e">>
Crumb == <<"P", " ", ">", " ", "F">>

\* a room with one attribute, an item whose attrs differ only in the case of
\* the key, an item and a room without attrs
MetaRoomAttr  == [type |-> "room", title |-> Den,  breadcrumb |-> Crumb,
                  attrs |-> << <<Name, Sofa>> >>]
MetaItemTwo   == [type |-> "item", title |-> Den,  breadcrumb |-> Crumb,
                  attrs |-> << <<Name, Sofa>>, <<name, Lamp>> >>]
MetaItemTitle == [type |-> "item", title |-> Sofa, breadcrumb |-> Crumb,
                  attrs |-> <<>>]
MetaRoomCrumb == [type |-> "room", title |-> Den,  breadcrumb |-> Crumb \o <<" ">> \o Lamp,
                  attrs |-> <<>>]

FilterRows == {MetaRoomAttr, MetaItemTwo, MetaItemTitle, MetaRoomCrumb}

\* values of --filter_kv
FilterValues ==
    { sofa,
      <<" ">> \o Sofa \o <<" ">>,
      lamp,
      name \o <<":">> \o sofa,
      <<"N", "A", "M", "E", ":", " ">> \o Sofa,
      name \o <<":">> \o lamp,
      <<"_", "t", "i", "t", "l", "e", ":">> \o lower(Den),
      <<"b", "r", "a", "n", "d", ":">> }

\* values of --filter_type
TypeWhitelists == { <<>>, <<"room">> }

SeqsUpTo(S, n) == UNION { [1..m -> S] : m \in 0..n }

\* the rows and filters of the ranking runs
SearchRows == {MetaRoomAttr, MetaItemTitle}
SearchFilters == { <<>>, << name \o <<":">> \o sofa >> }

\* a request whose only row and filters are drawn from the rich sets
InitFilter ==
    /\ in_dir = <<>>
    /\ store = [p \in {} |-> NoneId]
    /\ total = 0
    /\ chunks = <<>>
    /\ runs = 0
    /\ meta \in [1..1 -> FilterRows]
    /\ sims_full = <<1>>
    /\ search \in [filter_type : TypeWhitelists,
                   filter_kv   : SeqsUpTo(FilterValues, MaxFilters),
                   k           : {1}]
    /\ candidates = <<>> /\ top_rel = <<>> /\ top_idxs = <<>>
    /\ spc = "idle"
    /\ item_files = <<>> /\ RA = <<>> /\ RB = <<>> /\ exp = <<>> /\ cpc = "idle"
    /\ cargs = <<>> /\ report = <<>> /\ ext = <<>>
    /\ room_files = <<>> /\ seed = <<>> /\ creq = <<>> /\ payload = <<>>
    /\ kpc = "idle"
    /\ ifiles = <<>> /\ texts = <<>> /\ meta_lines = <<>> /\ requests = <<>>
    /\ vecs = <<>> /\ index_dir = <<>> /\ ipc = "idle"
    /\ by_id = <<>> /\ doc = <<>> /\ trail = <<>> /\ bpc = "idle"
    /\ pts = <<>> /\ pts_area = <<>>
    /\ item_names = <<>> /\ room_type = "None"
    /\ chat_srv = <<>> /\ posts = <<>> /\ chat_ret = <<>> /\ hpc = "idle"
    /\ itemsA = <<>> /\ itemsB = <<>> /\ rollup = <<>> /\ rpc = "idle"

\* an index of up to MaxRows rows with their scores against the query
InitSearch ==
    /\ in_dir = <<>>
    /\ store = [p \in {} |-> NoneId]
    /\ total = 0
    /\ chunks = <<>>
    /\ runs = 0
    /\ \E n \in 0..MaxRows :
         /\ meta \in [1..n -> SearchRows]
         /\ sims_full \in [1..n -> 0..MaxScore]
    /\ search \in [filter_type : {<<>>},
                   filter_kv   : SearchFilters,
                   k           : 1..MaxK]
    /\ candidates = <<>> /\ top_rel = <<>> /\ top_idxs = <<>>
    /\ spc = "idle"
    /\ item_files = <<>> /\ RA = <<>> /\ RB = <<>> /\ exp = <<>> /\ cpc = "idle"
    /\ cargs = <<>> /\ report = <<>> /\ ext = <<>>
    /\ room_files = <<>> /\ seed = <<>> /\ creq = <<>> /\ payload = <<>>
    /\ kpc = "idle"
    /\ ifiles = <<>> /\ texts = <<>> /\ meta_lines = <<>> /\ requests = <<>>
    /\ vecs = <<>> /\ index_dir = <<>> /\ ipc = "idle"
    /\ by_id = <<>> /\ doc = <<>> /\ trail = <<>> /\ bpc = "idle"
    /\ pts = <<>> /\ pts_area = <<>>
    /\ item_names = <<>> /\ room_type = "None"
    /\ chat_srv = <<>> /\ posts = <<>> /\ chat_ret = <<>> /\ hpc = "idle"
    /\ itemsA = <<>> /\ itemsB = <<>> /\ rollup = <<>> /\ rpc = "idle"

SpecFilter == InitFilter /\ [][SearchNext]_vars

SpecSearch == InitSearch /\ [][SearchNext]_vars

(***************************************************************************)
(* Claims on the search                                                    *)
(***************************************************************************)

\* the rows of meta that pass the filters of the request
Passing == {i \in DOMAIN meta :
              passes_filters(meta[i], search.filter_type, search.filter_kv)}

\* the scores handed to topk_indices
CandidateSims == [i \in DOMAIN candidates |-> sims_full[candidates[i]]]

C8_TopK ==
    (spc = "done" /\ candidates # <<>>) =>
        /\ Len(top_rel) = Min(search.k, Len(CandidateSims))
        /\ \A r \in DOMAIN top_rel : top_rel[r] \in DOMAIN CandidateSims
        /\ \A r, t \in DOMAIN top_rel : r # t => top_rel[r] # top_rel[t]
        /\ \A r, t \in DOMAIN top_rel :
              r < t => CandidateSims[top_rel[r]] >= CandidateSims[top_rel[t]]
        /\ \A i \in DOMAIN CandidateSims \ Range(top_rel) : \A r \in DOMAIN top_rel :
              CandidateSims[i] <= CandidateSims[top_rel[r]]

\* two positions returned out of three or more, with different scores, the
\* best of the list not being its first element
C8_Witness ==
    /\ spc = "done"
    /\ Len(top_rel) = 2
    /\ Len(candidates) >= 3
    /\ CandidateSims[top_rel[1]] > CandidateSims[top_rel[2]]
    /\ top_rel[1] # 1

\* the attribute values of a row, its title and its breadcrumb, lowercased
SearchableTexts(m) ==
    {lower(m.attrs[i][2]) : i \in DOMAIN m.attrs} \cup {lower(m.title), lower(m.breadcrumb)}

\* one filter as the claim reads it
FilterHolds(m, spec) ==
    IF ":" \notin Range(spec)
    THEN \E t \in SearchableTexts(m) : Contains(lower(strip(spec)), t)
    ELSE LET k == lower(strip(SubSeq(spec, 1, ColonAt(spec) - 1)))
             v == lower(strip(SubSeq(spec, ColonAt(spec) + 1, Len(spec))))
         IN  \E i \in DOMAIN m.attrs :
                /\ lower(m.attrs[i][1]) = k
                /\ Contains(v, lower(m.attrs[i][2]))

\* C9: a row passes the filters exactly when the type whitelist is empty or
\* holds the row's type, and every filter holds: a filter without a colon iff
\* its lowercased text is a substring of some attribute value, the title or
\* the breadcrumb, a filter key:value iff an attribute named key (whatever the
\* case) exists and contains value (whatever the case).
C9_FilterSemantics ==
    spc # "idle" =>
        \A i \in DOMAIN meta :
            (i \in Range(candidates)) <=>
                /\ search.filter_type = <<>> \/ meta[i].type \in Range(search.filter_type)
                /\ \A f \in DOMAIN search.filter_kv : FilterHolds(meta[i], search.filter_kv[f])

(***************************************************************************)
(* rag_stub.py : comparison of two rooms                                   *)
(***************************************************************************)
brandx == <<"b", "r", "a", "n", "d", "x">>
brandy == <<"b", "r", "a", "n", "d", "y">>
BrandX == <<"B", "r", "a", "n", "d", "X">>
BrandY == <<"B", "r", "a", "n", "d", "Y">>

\* it.get(k) or "" on the attrs of an item
AttrOrEmpty(it, k) == IF k \in DOMAIN it THEN it[k] ELSE <<>>

\* item_keys_for_room(room_doc, chunks_root): one signature per listed item;
\* an item whose file cannot be read gives it = {}
item_keys_for_room(room_doc, files) ==
    [i \in DOMAIN room_doc.items |->
        LET iid    == room_doc.items[i]
            it     == IF iid \in DOMAIN files THEN files[iid] ELSE [k \in {} |-> <<>>]
            tguess == IF AttrOrEmpty(it, "type_guess") # <<>>
                      THEN AttrOrEmpty(it, "type_guess")
                      ELSE AttrOrEmpty(it, "category")
        IN  << lower(AttrOrEmpty(it, "name")),
               lower(AttrOrEmpty(it, "brand")),
               lower(tguess) >>]

\* x or "-" in the formatted lines of exp
OrDash(x) == IF x = <<>> THEN <<"-">> ELSE x

\* the lines of exp["shared"], exp["only_a"], exp["only_b"]: one per
\* signature, in the arbitrary order of list(set)
FormatKeys(keys) == { <<OrDash(sig[1]), OrDash(sig[2]), OrDash(sig[3])>> : sig \in keys }

\* the comparison with the union taken to be the items of room A
compare_two_room_docs_union_a(files, ra, rb) ==
    LET Ia     == Range(item_keys_for_room(ra, files))
        Ib     == Range(item_keys_for_room(rb, files))
        shared == Ia \cap Ib
        only_a == Ia \ Ib
        only_b == Ib \ Ia
        union  == Ia
        jacc   == IF union # {} THEN <<Cardinality(shared), Cardinality(union)>>
                  ELSE <<0, 1>>
    IN  [ kind           |-> "compare",
          overlap_shared |-> Cardinality(shared),
          overlap_union  |-> Cardinality(union),
          jaccard        |-> jacc,
          count_a        |-> Cardinality(Ia),
          count_b        |-> Cardinality(Ib),
          shared         |-> FormatKeys(shared),
          only_a         |-> FormatKeys(only_a),
          only_b         |-> FormatKeys(only_b) ]

\* compare_two_room_docs(chunks_root, RA, a_rel, RB, b_rel), the same code as
\* main runs for --compare_rooms: the fields of exp on the item overlap.
\* jaccard is the quotient <<numerator, denominator>>.
compare_two_room_docs(files, ra, rb) ==
    LET Ia     == Range(item_keys_for_room(ra, files))
        Ib     == Range(item_keys_for_room(rb, files))
        shared == Ia \cap Ib
        only_a == Ia \ Ib
        only_b == Ib \ Ia
        union  == Ia \cup Ib
        jacc   == IF union # {} THEN <<Cardinality(shared), Cardinality(union)>>
                  ELSE <<0, 1>>
    IN  [ kind           |-> "compare",
          overlap_shared |-> Cardinality(shared),
          overlap_union  |-> Cardinality(union),
          jaccard        |-> jacc,
          count_a        |-> Cardinality(Ia),
          count_b        |-> Cardinality(Ib),
          shared         |-> FormatKeys(shared),
          only_a         |-> FormatKeys(only_a),
          only_b         |-> FormatKeys(only_b) ]

\* main --compare_rooms: both rooms load, embed raises for one of the texts
CompareEmbedFails ==
    /\ cpc = "idle"
    /\ cpc' = "error"
    /\ UNCHANGED <<item_files, RA, RB, exp, chunk_vars, search_vars, fn_vars, rest_vars>>

\* main --compare_rooms: both rooms load and exp is built
CompareRooms ==
    /\ cpc = "idle"
    /\ exp' = compare_two_room_docs(item_files, RA, RB)
    /\ cpc' = "done"
    /\ UNCHANGED <<item_files, RA, RB, chunk_vars, search_vars, fn_vars, rest_vars>>

CompareNext ==
    \/ CompareEmbedFails
    \/ CompareRooms

\* the item files under <chunks>/item: two spellings of one sofa, a lamp, a
\* chair known by its name only; "i5" has no file
ItemFiles ==
    [iid \in {"i1", "i2", "i3", "i4"} |->
        CASE iid = "i1" -> [k \in {"name", "brand", "type_guess"} |->
                                CASE k = "name" -> Sofa [] k = "brand" -> BrandX
                                  [] OTHER -> sofa]
          [] iid = "i2" -> [k \in {"name", "brand", "category"} |->
                                CASE k = "name" -> sofa [] k = "brand" -> brandx
                                  [] OTHER -> Sofa]
          [] iid = "i3" -> [k \in {"name", "brand", "type_guess", "category"} |->
                                CASE k = "name" -> Lamp [] k = "brand" -> BrandY
                                  [] k = "type_guess" -> lamp
                                  [] OTHER -> <<"l", "i", "g", "h", "t">>]
          [] OTHER      -> [k \in {"name"} |-> <<"C", "h", "a", "i", "r">>]]

\* the ids a room document may list
ItemIds == {"i1", "i2", "i3", "i4", "i5"}

\* two room documents listing up to MaxRoomItems items each
InitCompare ==
    /\ in_dir = <<>>
    /\ store = [p \in {} |-> NoneId]
    /\ total = 0
    /\ chunks = <<>>
    /\ runs = 0
    /\ meta = <<>> /\ sims_full = <<>> /\ search = <<>>
    /\ candidates = <<>> /\ top_rel = <<>> /\ top_idxs = <<>>
    /\ spc = "idle"
    /\ item_files = ItemFiles
    /\ RA \in [items : SeqsUpTo(ItemIds, MaxRoomItems)]
    /\ RB \in [items : SeqsUpTo(ItemIds, MaxRoomItems)]
    /\ exp = <<>>
    /\ cpc = "idle"
    /\ cargs = <<>> /\ report = <<>> /\ ext = <<>>
    /\ room_files = <<>> /\ seed = <<>> /\ creq = <<>> /\ payload = <<>>
    /\ kpc = "idle"
    /\ ifiles = <<>> /\ texts = <<>> /\ meta_lines = <<>> /\ requests = <<>>
    /\ vecs = <<>> /\ index_dir = <<>> /\ ipc = "idle"
    /\ by_id = <<>> /\ doc = <<>> /\ trail = <<>> /\ bpc = "idle"
    /\ pts = <<>> /\ pts_area = <<>>
    /\ item_names = <<>> /\ room_type = "None"
    /\ chat_srv = <<>> /\ posts = <<>> /\ chat_ret = <<>> /\ hpc = "idle"
    /\ itemsA = <<>> /\ itemsB = <<>> /\ rollup = <<>> /\ rpc = "idle"

SpecCompare == InitCompare /\ [][CompareNext]_vars

(***************************************************************************)
(* Claims on the comparison                                                *)
(***************************************************************************)

\* the item-signature sets of the two rooms
SigA == Range(item_keys_for_room(RA, item_files))
SigB == Range(item_keys_for_room(RB, item_files))

SofaSig == <<sofa, brandx, sofa>>
LampSig == <<lamp, brandy, lamp>>

\* C10: the comparison of two rooms with signature sets A and B reports
\* shared = A intersect B, only_a = A minus B, only_b = B minus A and the size
\* of A union B; the three parts are pairwise disjoint and their sizes add up
\* to the size of the union; jaccard = |shared| / |union|, 0 when the union is
\* empty, lies in [0,1] and is the same with A and B swapped, only_a and only_b
\* changing places. For A = {(sofa, brandx, sofa)} and B = A plus
\* (lamp, brandy, lamp): shared = 1, union = 2, jaccard = 0.5, |only_b| = 1.
C10_OverlapAlgebra ==
    cpc = "done" =>
        LET swapped == compare_two_room_docs(item_files, RB, RA)
        IN  /\ exp.shared = FormatKeys(SigA \cap SigB)
            /\ exp.only_a = FormatKeys(SigA \ SigB)
            /\ exp.only_b = FormatKeys(SigB \ SigA)
            /\ exp.overlap_shared = Cardinality(SigA \cap SigB)
            /\ exp.overlap_union = Cardinality(SigA \cup SigB)
            /\ exp.shared \cap exp.only_a = {}
            /\ exp.shared \cap exp.only_b = {}
            /\ exp.only_a \cap exp.only_b = {}
            /\ Cardinality(exp.shared) + Cardinality(exp.only_a)
                 + Cardinality(exp.only_b) = exp.overlap_union
            /\ IF SigA \cup SigB = {}
               THEN exp.jaccard = <<0, 1>>
               ELSE exp.jaccard = <<Cardinality(SigA \cap SigB), Cardinality(SigA \cup SigB)>>
            /\ 0 <= exp.jaccard[1] /\ exp.jaccard[1] <= exp.jaccard[2] /\ exp.jaccard[2] > 0
            /\ swapped.jaccard = exp.jaccard
            /\ swapped.shared = exp.shared
            /\ swapped.only_a = exp.only_b
            /\ swapped.only_b = exp.only_a
            /\ (SigA = {SofaSig} /\ SigB = {SofaSig, LampSig}) =>
                  /\ exp.overlap_shared = 1
                  /\ exp.overlap_union = 2
                  /\ 2 * exp.jaccard[1] = exp.jaccard[2]
                  /\ Cardinality(exp.only_b) = 1

\* the example of the claim, from items spelled in different case
C10_Witness ==
    /\ cpc = "done"
    /\ RA.items = <<"i1">>
    /\ RB.items = <<"i2", "i3">>
    /\ SigA = {SofaSig}
    /\ SigB = {SofaSig, LampSig}
    /\ exp.jaccard = <<1, 2>>

\* a room document without the listed ids that have no item file
WithoutMissing(room_doc) ==
    [items |-> SelectSeq(room_doc.items, LAMBDA iid : iid \in DOMAIN item_files)]

\* C11: an item id listed by a room whose item file is missing or unreadable
\* is skipped: it gives no signature, so shared, union, jaccard and the item
\* counts of the comparison are those of the rooms without that id.
C11_MissingItemSkipped ==
    cpc = "done" =>
        LET present == compare_two_room_docs(item_files, WithoutMissing(RA), WithoutMissing(RB))
        IN  /\ exp.overlap_shared = present.overlap_shared
            /\ exp.overlap_union = present.overlap_union
            /\ exp.jaccard = present.jaccard
            /\ exp.count_a = present.count_a
            /\ exp.count_b = present.count_b

(***************************************************************************)
(* rag_stub.py : room completion                                           *)
(* A loaded document carries oid, the identity of the Python object: the   *)
(* seed is object 0 and all_room_docs reads every file into a new object.  *)
(* The room summaries and the example item of a recommendation are left    *)
(* out of the payload.                                                     *)
(***************************************************************************)

\* the code point of a lowercase letter, 0 for any other character
CharCode(c) ==
    IF \E i \in DOMAIN LowerChars : LowerChars[i] = c
    THEN CHOOSE i \in DOMAIN LowerChars : LowerChars[i] = c
    ELSE 0

\* a < b on Python strings
RECURSIVE StrLess(_, _)
StrLess(a, b) ==
    IF b = <<>> THEN FALSE
    ELSE IF a = <<>> THEN TRUE
    ELSE IF CharCode(Head(a)) # CharCode(Head(b)) THEN CharCode(Head(a)) < CharCode(Head(b))
    ELSE StrLess(Tail(a), Tail(b))

\* all_room_docs(chunks_root): (rel, doc) per room file, in the order
\* os.listdir gave
all_room_docs(files, listing) ==
    [j \in DOMAIN listing |->
        [rel |-> <<"room", listing[j]>>,
         doc |-> [oid |-> j, items |-> files[listing[j]].items]]]

\* sig_from_items_set(items_set)
sig_from_items_set(items_set) ==
    { <<x[2], x[3]>> : x \in {y \in items_set : y[2] # <<>> \/ y[3] # <<>>} }

\* step 2 before the sort: the scanned rooms sharing a pair with the seed
nbr_rows(files, item_attrs, seed_doc, listing) ==
    LET seed_sig == sig_from_items_set(Range(item_keys_for_room(seed_doc, item_attrs)))
        row(r)   == LET items == Range(item_keys_for_room(r.doc, item_attrs))
                        sig   == sig_from_items_set(items)
                    IN  [shared |-> Cardinality(seed_sig \cap sig), rel |-> r.rel,
                         doc |-> r.doc, items |-> items, sig |-> sig]
        rows     == [j \in DOMAIN listing |-> row(all_room_docs(files, listing)[j])]
    IN  SelectSeq(rows, LAMBDA r : r.doc.oid # seed_doc.oid /\ r.shared > 0)

\* nbrs.sort(key=lambda x: x[0], reverse=True): stable, highest shared first
sort_nbrs(rows) ==
    LET before(i, j) == rows[i].shared > rows[j].shared
                        \/ (rows[i].shared = rows[j].shared /\ i < j)
        pos(j)       == 1 + Cardinality({i \in DOMAIN rows : before(i, j)})
    IN  [q \in DOMAIN rows |-> rows[CHOOSE j \in DOMAIN rows : pos(j) = q]]

\* step 3: counts[pair]["count"] over the neighbors kept
pair_counts(nbrs, seed_pairs) ==
    LET pairs == UNION { { <<x[2], x[3]>> : x \in nbrs[j].items } : j \in DOMAIN nbrs }
        kept  == {pr \in pairs : pr \notin seed_pairs /\ (pr[1] # <<>> \/ pr[2] # <<>>)}
    IN  [pr \in kept |->
            SumSeq([j \in DOMAIN nbrs |->
                      Cardinality({x \in nbrs[j].items : <<x[2], x[3]>> = pr})])]

\* the sort of step 4 with brand compared before type
rank_before_brand_first(counts, p, q) ==
    \/ counts[p] > counts[q]
    \/ counts[p] = counts[q] /\ StrLess(p[1], q[1])
    \/ counts[p] = counts[q] /\ p[1] = q[1] /\ StrLess(p[2], q[2])

\* the sort key of step 4: (-count, type, brand)
rank_before(counts, p, q) ==
    \/ counts[p] > counts[q]
    \/ counts[p] = counts[q] /\ StrLess(p[2], q[2])
    \/ counts[p] = counts[q] /\ p[2] = q[2] /\ StrLess(p[1], q[1])

\* sorted(counts.items(), key=...)[:topn]
ranked_pairs(counts, topn) ==
    LET pos(p) == 1 + Cardinality({q \in DOMAIN counts : rank_before(counts, q, p)})
        all    == [i \in 1..Cardinality(DOMAIN counts) |->
                      CHOOSE p \in DOMAIN counts : pos(p) = i]
    IN  SubSeq(all, 1, Min(topn, Len(all)))

\* complete_room_from_neighbors(chunks_root, seed_doc, neighbors, topn, style);
\* style_tag is what step 5 left in the variable
complete_room_from_neighbors(files, item_attrs, seed_doc, listing, neighbors, topn, style_tag) ==
    LET seed_items == Range(item_keys_for_room(seed_doc, item_attrs))
        sorted     == sort_nbrs(nbr_rows(files, item_attrs, seed_doc, listing))
        nbrs       == SubSeq(sorted, 1, Min(neighbors, Len(sorted)))
        seed_pairs == { <<x[2], x[3]>> : x \in seed_items }
        counts     == pair_counts(nbrs, seed_pairs)
        ranked     == ranked_pairs(counts, topn)
    IN  [ kind            |-> "complete",
          neighbors_used  |-> [j \in DOMAIN nbrs |->
                                  [path |-> nbrs[j].rel, shared_pairs |-> nbrs[j].shared]],
          recommendations |-> [i \in DOMAIN ranked |->
                                  [brand |-> ranked[i][1], type |-> ranked[i][2],
                                   seen_in_neighbors |-> counts[ranked[i]]]],
          style_tag       |-> style_tag ]

\* the seed document of the run: load_room for --complete_room,
\* seed_doc_from_items for --complete_from_items
seed_doc_of(sd, files) ==
    IF sd.kind = "stored" THEN [oid |-> 0, items |-> files[sd.room].items]
    ELSE [oid |-> 0, items |-> sd.items]

\* main --complete_room / --complete_from_items without --style, or with
\* --style and a chat model that answers
CompleteRoom ==
    /\ kpc = "idle"
    /\ \E listing \in Perms(Len(room_files)) :
         payload' = complete_room_from_neighbors(
                        room_files, item_files, seed_doc_of(seed, room_files), listing,
                        creq.neighbors, creq.topn,
                        IF creq.style = None THEN None ELSE [label |-> creq.style])
    /\ ext' = IF creq.style = None THEN ext ELSE Append(ext, [svc |-> "chat", ok |-> TRUE])
    /\ kpc' = "done"
    /\ UNCHANGED <<room_files, seed, creq, item_files, RA, RB, exp, cpc,
                   chunk_vars, search_vars, fn_vars, mode_vars, index_vars, crumb_vars>>

\* the same with --style and a chat call that raises: step 5 catches it
CompleteRoomChatFails ==
    /\ kpc = "idle"
    /\ creq.style # None
    /\ \E listing \in Perms(Len(room_files)) :
         payload' = complete_room_from_neighbors(
                        room_files, item_files, seed_doc_of(seed, room_files), listing,
                        creq.neighbors, creq.topn, None)
    /\ ext' = Append(ext, [svc |-> "chat", ok |-> FALSE])
    /\ kpc' = "done"
    /\ UNCHANGED <<room_files, seed, creq, item_files, RA, RB, exp, cpc,
                   chunk_vars, search_vars, fn_vars, mode_vars, index_vars, crumb_vars>>

CompleteNext ==
    \/ CompleteRoom
    \/ CompleteRoomChatFails

\* the item files of the completion runs: those of the comparison and a
\* rug of the sofa's brand
CatalogFiles ==
    [iid \in DOMAIN ItemFiles \cup {"i6"} |->
        IF iid = "i6"
        THEN [k \in {"name", "brand", "type_guess"} |->
                 CASE k = "name" -> <<"R", "u", "g">> [] k = "brand" -> BrandX
                   [] OTHER -> <<"r", "u", "g">>]
        ELSE ItemFiles[iid]]

\* the item lists of the stored rooms
RoomItemLists == { <<"i1">>, <<"i2", "i3">>, <<"i1", "i6">>, <<"i4", "i5">> }

\* the item lists of a virtual seed
VirtualSeeds == { <<"i1">> }

InitComplete ==
    /\ in_dir = <<>>
    /\ store = [p \in {} |-> NoneId]
    /\ total = 0
    /\ chunks = <<>>
    /\ runs = 0
    /\ meta = <<>> /\ sims_full = <<>> /\ search = <<>>
    /\ candidates = <<>> /\ top_rel = <<>> /\ top_idxs = <<>>
    /\ spc = "idle"
    /\ item_files = CatalogFiles
    /\ RA = <<>> /\ RB = <<>> /\ exp = <<>> /\ cpc = "idle"
    /\ cargs = <<>> /\ report = <<>> /\ ext = <<>>
    /\ \E n \in 1..MaxRooms :
         /\ room_files \in [1..n -> [items : RoomItemLists]]
         /\ seed \in [kind : {"stored"}, room : 1..n]
                     \cup [kind : {"virtual"}, items : VirtualSeeds]
    /\ creq \in [neighbors : 1..MaxNeighbors, topn : 1..MaxTopN,
                 style : {None, "classic"}]
    /\ payload = <<>>
    /\ kpc = "idle"
    /\ ifiles = <<>> /\ texts = <<>> /\ meta_lines = <<>> /\ requests = <<>>
    /\ vecs = <<>> /\ index_dir = <<>> /\ ipc = "idle"
    /\ by_id = <<>> /\ doc = <<>> /\ trail = <<>> /\ bpc = "idle"
    /\ pts = <<>> /\ pts_area = <<>>
    /\ item_names = <<>> /\ room_type = "None"
    /\ chat_srv = <<>> /\ posts = <<>> /\ chat_ret = <<>> /\ hpc = "idle"
    /\ itemsA = <<>> /\ itemsB = <<>> /\ rollup = <<>> /\ rpc = "idle"

SpecComplete == InitComplete /\ [][CompleteNext]_vars

(***************************************************************************)
(* Claims on room completion                                               *)
(***************************************************************************)

\* C12: room completion scans only rooms other than the seed: whether the
\* seed is a stored room or a virtual one, the seed room is never one of
\* neighbors_used.
C12_SeedNotNeighbor ==
    (kpc = "done" /\ seed.kind = "stored") =>
        \A j \in DOMAIN payload.neighbors_used :
            payload.neighbors_used[j].path # <<"room", seed.room>>

\* the signatures of the rooms named by neighbors_used
NeighborItems ==
    UNION { Range(item_keys_for_room(room_files[payload.neighbors_used[j].path[2]], item_files)) :
            j \in DOMAIN payload.neighbors_used }

\* the (brand, type) pairs of the seed's items
SeedPairs ==
    { <<x[2], x[3]>> : x \in Range(item_keys_for_room(seed_doc_of(seed, room_files), item_files)) }

\* the pairs that could be recommended, and how often the neighbors used hold
\* each
Recommendable ==
    { pr \in { <<x[2], x[3]>> : x \in NeighborItems } :
        pr \notin SeedPairs /\ (pr[1] # <<>> \/ pr[2] # <<>>) }
SeenCount(pr) ==
    SumSeq([j \in DOMAIN payload.neighbors_used |->
              Cardinality({x \in Range(item_keys_for_room(
                                  room_files[payload.neighbors_used[j].path[2]], item_files)) :
                              <<x[2], x[3]>> = pr})])

\* p ranks before q: higher count, then smaller type, then smaller brand
RanksBefore(p, q) ==
    \/ SeenCount(p) > SeenCount(q)
    \/ SeenCount(p) = SeenCount(q) /\ StrLess(p[2], q[2])
    \/ SeenCount(p) = SeenCount(q) /\ p[2] = q[2] /\ StrLess(p[1], q[1])

RecPair(i) == <<payload.recommendations[i].brand, payload.recommendations[i].type>>

C16_ChatFailureFails ==
    (kpc # "idle" /\ \E i \in DOMAIN ext : ext[i].svc = "chat" /\ ~ext[i].ok) =>
        kpc = "error"

(***************************************************************************)
(* index_chunks.py : titles and breadcrumbs                                *)
(* A document is a record with the fields id, type, attrs and parent_id;   *)
(* an id is <<n>>, an absent id NoId, an absent string None. A formatted  *)
(* string is the sequence of its pieces.                                   *)
(***************************************************************************)

\* an absent id, and the document by_id.get gives for an id it does not hold
NoId == <<>>
NoDoc == [absent |-> TRUE]

\* the turns of the loop of breadcrumb
CrumbDepth == 6

\* by_id.get(pid)
ById(ids, pid) == IF pid \in DOMAIN ids THEN ids[pid] ELSE NoDoc

\* attrs.get("name") or attrs.get("label") or attrs.get("role") or ""
name_of(d) ==
    IF d.attrs.name # None THEN d.attrs.name
    ELSE IF d.attrs.label # None THEN d.attrs.label
    ELSE IF d.attrs.role # None THEN d.attrs.role
    ELSE ""

\* title_for(doc)
title_for(d) ==
    LET t == IF d.type = None THEN "" ELSE d.type
    IN  IF name_of(d) # "" THEN <<t, ": ", name_of(d)>> ELSE <<t>>

\* what one turn of the loop of breadcrumb appends to chain
crumb_label(cur) ==
    LET typ == IF cur.type = None THEN "" ELSE cur.type
    IN  IF name_of(cur) # "" THEN <<typ, ":", name_of(cur)>>
        ELSE IF typ # "" THEN <<typ>> ELSE <<"node">>

\* the loop of breadcrumb from cur with n turns left: the chain, leaf first
RECURSIVE crumb_chain(_, _, _, _)
crumb_chain(cur, ids, seen, n) ==
    IF n = 0 \/ cur = NoDoc THEN <<>>
    ELSE <<crumb_label(cur)>> \o
         (IF cur.parent_id = NoId \/ cur.parent_id \in seen THEN <<>>
          ELSE crumb_chain(ById(ids, cur.parent_id), ids, seen \cup {cur.parent_id}, n - 1))

\* sep.join(parts)
RECURSIVE join(_, _)
join(sep, parts) ==
    IF parts = <<>> THEN <<>>
    ELSE IF Len(parts) = 1 THEN parts[1]
    ELSE parts[1] \o <<sep>> \o join(sep, Tail(parts))

\* reversed(chain)
reversed(chain) == [i \in DOMAIN chain |-> chain[Len(chain) + 1 - i]]

\* breadcrumb with the chain joined as it was climbed
breadcrumb_leaf_first(d, ids) ==
    join(" > ", crumb_chain(d, ids, {}, CrumbDepth))

\* breadcrumb(doc, by_id)
breadcrumb(d, ids) ==
    join(" > ", reversed(crumb_chain(d, ids, {}, CrumbDepth)))

\* the breadcrumb of one document is asked
Breadcrumb ==
    /\ bpc = "idle"
    /\ trail' = breadcrumb(doc, by_id)
    /\ bpc' = "done"
    /\ UNCHANGED <<by_id, doc, chunk_vars, search_vars, fn_vars, compare_vars, mode_vars, ext,
                   complete_vars, index_vars>>

CrumbNext ==
    \/ Breadcrumb

\* the type of the n-th document of a chain; documents past the project have
\* no type
LevelTypes == <<"item", "room", "design", "floor", "project">>
TypeAt(n) == IF n \in DOMAIN LevelTypes THEN LevelTypes[n] ELSE None

\* where the parent_id of the last document of a chain points: nowhere, to an
\* id that no document has, or back to the first document
TopParents == {"none", "dangling", "cycle"}

\* the document n of a chain of len documents
ChainDoc(n, len, named, top) ==
    [ id        |-> <<n>>,
      type      |-> TypeAt(n),
      attrs     |-> [name  |-> None,
                     label |-> IF n \in named THEN "L" ELSE None,
                     role  |-> IF n \in named THEN "R" ELSE None],
      parent_id |-> IF n < len THEN <<n + 1>>
                    ELSE IF top = "none" THEN NoId
                    ELSE IF top = "dangling" THEN <<0>>
                    ELSE <<1>> ]

\* chains of up to MaxChain documents, each the parent of the one before
InitCrumb ==
    /\ in_dir = <<>>
    /\ store = [p \in {} |-> NoId]
    /\ total = 0
    /\ chunks = <<>>
    /\ runs = 0
    /\ meta = <<>> /\ sims_full = <<>> /\ search = <<>>
    /\ candidates = <<>> /\ top_rel = <<>> /\ top_idxs = <<>>
    /\ spc = "idle"
    /\ item_files = <<>> /\ RA = <<>> /\ RB = <<>> /\ exp = <<>> /\ cpc = "idle"
    /\ cargs = <<>> /\ report = <<>> /\ ext = <<>>
    /\ room_files = <<>> /\ seed = <<>> /\ creq = <<>> /\ payload = <<>>
    /\ kpc = "idle"
    /\ ifiles = <<>> /\ texts = <<>> /\ meta_lines = <<>> /\ requests = <<>>
    /\ vecs = <<>> /\ index_dir = <<>> /\ ipc = "idle"
    /\ \E len \in 1..MaxChain, named \in SUBSET (1..MaxChain), top \in TopParents :
         /\ named \subseteq 1..len
         /\ by_id = [i \in {<<n>> : n \in 1..len} |-> ChainDoc(i[1], len, named, top)]
         /\ doc \in {by_id[<<n>>] : n \in 1..len}
    /\ trail = <<>>
    /\ bpc = "idle"
    /\ pts = <<>> /\ pts_area = <<>>
    /\ item_names = <<>> /\ room_type = "None"
    /\ chat_srv = <<>> /\ posts = <<>> /\ chat_ret = <<>> /\ hpc = "idle"
    /\ itemsA = <<>> /\ itemsB = <<>> /\ rollup = <<>> /\ rpc = "idle"

SpecCrumb == InitCrumb /\ [][CrumbNext]_vars

(***************************************************************************)
(* Claims on the breadcrumb                                                *)
(***************************************************************************)

\* the documents from d upwards while the parent_id is present and found,
\* at most n of them, d first
RECURSIVE Ancestry(_, _)
Ancestry(d, n) ==
    IF n = 0 THEN <<>>
    ELSE <<d>> \o (IF d.parent_id = NoId \/ d.parent_id \notin DOMAIN by_id THEN <<>>
                   ELSE Ancestry(by_id[d.parent_id], n - 1))

\* no document is met twice on the way up from doc
NoCycle ==
    LET up == Ancestry(doc, Cardinality(DOMAIN by_id) + 1)
    IN  \A i, j \in DOMAIN up : i # j => up[i].id # up[j].id

\* type:name, or the type alone, or "node" for a document without either
NodeText(d) ==
    IF name_of(d) # "" THEN <<IF d.type = None THEN "" ELSE d.type, ":", name_of(d)>>
    ELSE IF d.type # None THEN <<d.type>> ELSE <<"node">>

\* C20: for a document whose ancestry has no cycle, breadcrumb gives the
\* document and its successive parents, each as type:name or the type alone,
\* root first and leaf last, joined by the separator; the climb ends at the
\* first document whose parent_id is absent or not found in by_id, and the
\* chain holds at most 6 documents.
C20_Breadcrumb ==
    (bpc = "done" /\ NoCycle) =>
        LET up == Ancestry(doc, CrumbDepth)
        IN  /\ Len(up) <= 6
            /\ trail = join(" > ", [i \in DOMAIN up |-> NodeText(up[Len(up) + 1 - i])])

\* a climb of more than six documents that ends at a dangling parent_id
C20_Witness ==
    /\ bpc = "done"
    /\ NoCycle
    /\ Len(Ancestry(doc, Cardinality(DOMAIN by_id) + 1)) > 6
    /\ by_id[<<Cardinality(DOMAIN by_id)>>].parent_id = <<0>>
    /\ Len(trail) > 11

(***************************************************************************)
(* index_chunks.py : the index build                                       *)
(* An embedding request is a record of the position and text sent and of   *)
(* the reply, NoReply while the call has not returned.                     *)
(* The texts of the model are shorter than --max_chars.                    *)
(***************************************************************************)

\* build_maps(root): by_id of the documents that have an id
build_maps(files) ==
    [i \in {files[n].id : n \in {m \in DOMAIN files : files[m].id # NoId}} |->
        files[CHOOSE n \in DOMAIN files :
                /\ files[n].id = i
                /\ \A m \in DOMAIN files : files[m].id = i => m <= n]]

\* text_for(doc, trail)
text_for(d, tr) ==
    LET base   == IF d.summary # None THEN d.summary ELSE ""
        keys   == <<"role", "name", "label">>
        vals   == [k \in 1..3 |-> CASE k = 1 -> d.attrs.role [] k = 2 -> d.attrs.name
                                    [] OTHER -> d.attrs.label]
        extras == [k \in 1..Len(SelectSeq(<<1, 2, 3>>, LAMBDA k : vals[k] # None)) |->
                      LET key == SelectSeq(<<1, 2, 3>>, LAMBDA q : vals[q] # None)[k]
                      IN  <<keys[key], ": ", vals[key]>>]
    IN  <<"[breadcrumb] ">> \o tr \o <<"\n", base>>
          \o (IF extras # <<>> THEN <<"\n", "[attrs] ">> \o join(" | ", extras) ELSE <<>>)

\* the meta of main for the document d
meta_for(d, ids) ==
    [ id         |-> d.id,
      type       |-> IF d.type = None THEN "" ELSE d.type,
      path       |-> d.path,
      title      |-> title_for(d),
      breadcrumb |-> breadcrumb(d, ids) ]

\* what the embedding service may answer: an HTTP error, a body without an
\* embedding, or a vector
EmbedReplies ==
    { [status |-> "error"] } \cup [status : {"ok"}, embedding : { <<>>, <<1>>, <<2>>, <<1, 2>> }]

\* the reply field of a request that has not returned
NoReply == [status |-> "pending"]

\* embed_texts raising on an HTTP error only
embed_raises_http_only(reply) == reply.status = "error"

\* does the reply make embed_texts raise: raise_for_status, or no embedding
embed_raises(reply) == IF reply.status = "error" THEN TRUE ELSE reply.embedding = <<>>

\* np.vstack(vecs) with the rows in the order received last to first
vstack_reversed(vs) == [i \in DOMAIN vs |-> vs[Len(vs) + 1 - i]]

\* np.vstack(vecs)
vstack(vs) == vs

\* can np.vstack stack these rows: they have one length
stackable(vs) == \A i, j \in DOMAIN vs : Len(vs[i]) = Len(vs[j])

Pending == {j \in DOMAIN requests : requests[j].reply = NoReply}

\* main up to the call of embed_texts, with no chunk file found
IndexNoFiles ==
    /\ ipc = "idle"
    /\ ifiles = <<>>
    /\ ipc' = "error"
    /\ UNCHANGED <<ifiles, texts, meta_lines, requests, vecs, index_dir,
                   chunk_vars, search_vars, fn_vars, compare_vars, mode_vars, ext,
                   complete_vars, crumb_vars>>

\* main up to the call of embed_texts
IndexStart ==
    /\ ipc = "idle"
    /\ ifiles # <<>>
    /\ texts' = [n \in DOMAIN ifiles |->
                    text_for(ifiles[n], breadcrumb(ifiles[n], build_maps(ifiles)))]
    /\ meta_lines' = [n \in DOMAIN ifiles |-> meta_for(ifiles[n], build_maps(ifiles))]
    /\ ipc' = "embedding"
    /\ UNCHANGED <<ifiles, requests, vecs, index_dir,
                   chunk_vars, search_vars, fn_vars, compare_vars, mode_vars, ext,
                   complete_vars, crumb_vars>>

\* embed_texts: s.post for the next text
EmbedSend ==
    /\ ipc = "embedding"
    /\ Pending = {}
    /\ Len(vecs) < Len(texts)
    /\ requests' = Append(requests, [i |-> Len(vecs) + 1, prompt |-> texts[Len(vecs) + 1],
                                     reply |-> NoReply])
    /\ UNCHANGED <<ifiles, texts, meta_lines, vecs, index_dir, ipc,
                   chunk_vars, search_vars, fn_vars, compare_vars, mode_vars, ext,
                   complete_vars, crumb_vars>>

\* embed_texts: the call returns a vector, which is appended to vecs
EmbedReply ==
    /\ ipc = "embedding"
    /\ Pending # {}
    /\ \E reply \in EmbedReplies :
         /\ ~embed_raises(reply)
         /\ requests' = [requests EXCEPT ![Len(requests)].reply = reply]
         /\ vecs' = Append(vecs, reply.embedding)
    /\ UNCHANGED <<ifiles, texts, meta_lines, index_dir, ipc,
                   chunk_vars, search_vars, fn_vars, compare_vars, mode_vars, ext,
                   complete_vars, crumb_vars>>

\* embed_texts: the call fails or brings no embedding; the exception ends main
EmbedFails ==
    /\ ipc = "embedding"
    /\ Pending # {}
    /\ \E reply \in EmbedReplies :
         /\ embed_raises(reply)
         /\ requests' = [requests EXCEPT ![Len(requests)].reply = reply]
    /\ ipc' = "error"
    /\ UNCHANGED <<ifiles, texts, meta_lines, vecs, index_dir,
                   chunk_vars, search_vars, fn_vars, compare_vars, mode_vars, ext,
                   complete_vars, crumb_vars>>

\* embed_texts: np.vstack raises on rows of different lengths
IndexStackFails ==
    /\ ipc = "embedding"
    /\ Pending = {}
    /\ Len(vecs) = Len(texts)
    /\ ~stackable(vecs)
    /\ ipc' = "error"
    /\ UNCHANGED <<ifiles, texts, meta_lines, requests, vecs, index_dir,
                   chunk_vars, search_vars, fn_vars, compare_vars, mode_vars, ext,
                   complete_vars, crumb_vars>>

\* main after embed_texts: vectors.npy, meta.jsonl and config.json are written
IndexWrite ==
    /\ ipc = "embedding"
    /\ Pending = {}
    /\ Len(vecs) = Len(texts)
    /\ stackable(vecs)
    /\ index_dir' = [f \in {"vectors.npy", "meta.jsonl", "config.json"} |->
                        CASE f = "vectors.npy" -> vstack(vecs)
                          [] f = "meta.jsonl"  -> meta_lines
                          [] OTHER -> [count |-> Len(meta_lines), dims |-> Len(vstack(vecs)[1])]]
    /\ ipc' = "done"
    /\ UNCHANGED <<ifiles, texts, meta_lines, requests, vecs,
                   chunk_vars, search_vars, fn_vars, compare_vars, mode_vars, ext,
                   complete_vars, crumb_vars>>

IndexNext ==
    \/ IndexNoFiles
    \/ IndexStart
    \/ EmbedSend
    \/ EmbedReply
    \/ EmbedFails
    \/ IndexStackFails
    \/ IndexWrite

\* a chunk document as gather_files finds it
IndexDoc(n, typ, nm, role, parent, summary) ==
    [ id |-> IF n = 0 THEN NoId ELSE <<n>>, type |-> typ,
      attrs |-> [name |-> nm, label |-> None, role |-> role],
      parent_id |-> parent, summary |-> summary, path |-> <<typ, n>> ]

\* the chunk files of the store, in the sorted order of their paths
IndexDocs ==
    << IndexDoc(1, "project", "P", None, NoId, "a project"),
       IndexDoc(2, "room", "Den", "Living", <<1>>, "a room"),
       IndexDoc(3, "room", None, None, <<9>>, None) >>

\* the subsequence of s at the positions of the set keep
Pick(s, keep) == SelectSeq(s, LAMBDA x : \E n \in keep : s[n] = x)

InitIndex ==
    /\ in_dir = <<>>
    /\ store = [p \in {} |-> NoneId]
    /\ total = 0
    /\ chunks = <<>>
    /\ runs = 0
    /\ meta = <<>> /\ sims_full = <<>> /\ search = <<>>
    /\ candidates = <<>> /\ top_rel = <<>> /\ top_idxs = <<>>
    /\ spc = "idle"
    /\ item_files = <<>> /\ RA = <<>> /\ RB = <<>> /\ exp = <<>> /\ cpc = "idle"
    /\ cargs = <<>> /\ report = <<>> /\ ext = <<>>
    /\ room_files = <<>> /\ seed = <<>> /\ creq = <<>> /\ payload = <<>>
    /\ kpc = "idle"
    /\ \E keep \in SUBSET DOMAIN IndexDocs : ifiles = Pick(IndexDocs, keep)
    /\ texts = <<>> /\ meta_lines = <<>> /\ requests = <<>>
    /\ vecs = <<>> /\ index_dir = <<>> /\ ipc = "idle"
    /\ by_id = <<>> /\ doc = <<>> /\ trail = <<>> /\ bpc = "idle"
    /\ pts = <<>> /\ pts_area = <<>>
    /\ item_names = <<>> /\ room_type = "None"
    /\ chat_srv = <<>> /\ posts = <<>> /\ chat_ret = <<>> /\ hpc = "idle"
    /\ itemsA = <<>> /\ itemsB = <<>> /\ rollup = <<>> /\ rpc = "idle"

SpecIndex == InitIndex /\ [][IndexNext]_vars

(***************************************************************************)
(* Claims on the index build                                               *)
(***************************************************************************)

\* C14: the index build sends one embedding request per chunk text, in input
\* order and never two at a time; when it succeeds, row i of the vector array
\* is the vector returned for text i, and meta.jsonl has as many lines as the
\* array has rows, line i describing the chunk whose text produced row i.
C14_OneRequestPerTextInOrder ==
    /\ \A j \in DOMAIN requests :
          /\ requests[j].i = j
          /\ j <= Len(texts)
          /\ requests[j].prompt = texts[j]
    /\ Cardinality(Pending) <= 1
    /\ Pending \subseteq {Len(requests)}
    /\ ipc = "done" =>
          /\ Len(requests) = Len(ifiles)
          /\ Len(index_dir["vectors.npy"]) = Len(ifiles)
          /\ Len(index_dir["meta.jsonl"]) = Len(index_dir["vectors.npy"])
          /\ \A n \in DOMAIN ifiles :
                /\ requests[n].reply.status = "ok"
                /\ index_dir["vectors.npy"][n] = requests[n].reply.embedding
                /\ index_dir["meta.jsonl"][n].id = ifiles[n].id
                /\ index_dir["meta.jsonl"][n].path = ifiles[n].path
                /\ texts[n] = text_for(ifiles[n], index_dir["meta.jsonl"][n].breadcrumb)

\* an index of three chunks whose vectors are not all the same
C14_Witness ==
    /\ ipc = "done"
    /\ Len(ifiles) = 3
    /\ index_dir["vectors.npy"] = << <<1>>, <<2>>, <<2>> >>

\* the requests that failed or brought no vector
Failed ==
    {j \in DOMAIN requests :
        IF requests[j].reply.status = "ok" THEN requests[j].reply.embedding = <<>>
        ELSE requests[j].reply.status = "error"}

\* C15: when an embedding request fails or returns no vector, embed_texts
\* raises at that text: the request is the last one sent, no text was asked
\* twice, and none of vectors.npy, meta.jsonl and config.json is written.
C15_FailedBuildWritesNothing ==
    Failed # {} =>
        /\ ipc = "error"
        /\ Failed = {Len(requests)}
        /\ \A j, k \in DOMAIN requests : j # k => requests[j].i # requests[k].i
        /\ Len(vecs) = Len(requests) - 1
        /\ DOMAIN index_dir = {}

\* the second of three texts brought no vector
C15_Witness ==
    /\ ipc = "error"
    /\ Len(texts) = 3
    /\ Len(requests) = 2
    /\ requests[2].reply = [status |-> "ok", embedding |-> <<>>]
    /\ requests[1].reply = [status |-> "ok", embedding |-> <<1>>]

(***************************************************************************)
(* Claims on the chunker: failed inputs and room areas                     *)
(***************************************************************************)

\* the chunk_ids of the lists the last run got from the files of in_dir
ExpectedIds ==
    UNION { {chunks[f][i].chunk_id : i \in DOMAIN chunks[f]} : f \in DOMAIN chunks }

\* C17: a file that cannot be read or parsed gives no chunk file and the
\* count 0; the other files of the directory are still processed, and the
\* total is the sum of the counts of the files that parsed.
C17_ParseFailureSkipped ==
    runs >= 1 =>
        /\ \A f \in DOMAIN in_dir :
              IF in_dir[f].parses
              THEN chunks[f] = normalize_project(in_dir[f].fml)
              ELSE chunks[f] = <<>>
        /\ {p.file : p \in DOMAIN store} = ExpectedIds
        /\ total = SumSeq([f \in DOMAIN in_dir |->
                             IF in_dir[f].parses THEN Len(chunks[f]) ELSE 0])

\* a run over a file that does not parse followed by one that does
C17_Witness ==
    /\ runs >= 1
    /\ Len(in_dir) = 2
    /\ ~in_dir[1].parses
    /\ in_dir[2].parses
    /\ total >= 3
    /\ DOMAIN store # {}

\* C18: a room built from an area polygon carries, in a metric project, both
\* the area in units^2 and area_m2 = that area / 10000, and in a non-metric
\* project the units^2 value alone, area_m2 being null.
C18_RoomAreas ==
    \A f \in DOMAIN chunks : \A i \in DOMAIN chunks[f] :
        LET ch  == chunks[f][i]
            raw == polygon_area(usable_points(ch.raw))
        IN  ch.level = "room" =>
              /\ ch.area_units2 = raw
              /\ IF in_dir[f].fml.useMetric
                 THEN ch.area_m2 = <<raw[1], raw[2] * 10000>>
                 ELSE ch.area_m2 = NoneNum

(***************************************************************************)
(* rag_stub.py : main --compare                                            *)
(* RA and RB are the two chunks A and B; cpc ends as "done" for a normal   *)
(* end, "error" for an exception or a SystemExit with a message, "search"  *)
(* when the run goes on into the index-backed modes.                       *)
(***************************************************************************)

\* collect_items(doc) of main, as the room document whose items are compared
collect_items(d) == IF d.type = "room" THEN [items |-> d.items] ELSE [items |-> <<>>]

\* generate_insight(model, exp): the text of the model, or the text that
\* reports the failure of the chat call
generate_insight(chat_ok) ==
    IF chat_ok THEN "insight" ELSE "(insight generation failed)"

\* main --compare up to the export: exp, with insight_text under --explain
compare_exp(files, a, b, explain, chat_ok) ==
    LET e == compare_two_room_docs(files, collect_items(a), collect_items(b))
    IN  IF explain THEN DictSet(e, "insight_text", generate_insight(chat_ok)) ELSE e

\* the calls of the run: two embeddings, and the chat call of --explain
compare_calls(explain, chat_ok) ==
    << [svc |-> "embed", ok |-> TRUE], [svc |-> "embed", ok |-> TRUE] >>
      \o (IF explain THEN << [svc |-> "chat", ok |-> chat_ok] >> ELSE <<>>)

\* main --compare: embed raises for one of the two texts
CompareModeEmbedFails ==
    /\ cpc = "idle"
    /\ ext' = Append(ext, [svc |-> "embed", ok |-> FALSE])
    /\ cpc' = "error"
    /\ UNCHANGED <<item_files, RA, RB, exp, mode_vars,
                   chunk_vars, search_vars, fn_vars, complete_vars, index_vars, crumb_vars>>

\* main --compare --out: after the console summary the export block reads
\* srcs or answer, locals of main that are not assigned yet, and the run ends
\* with UnboundLocalError before the file is opened
CompareModeOut ==
    /\ cpc = "idle"
    /\ cargs.out
    /\ \E chat_ok \in BOOLEAN :
         /\ exp' = compare_exp(item_files, RA, RB, cargs.explain, chat_ok)
         /\ ext' = ext \o compare_calls(cargs.explain, chat_ok)
    /\ cpc' = "error"
    /\ UNCHANGED <<item_files, RA, RB, mode_vars,
                   chunk_vars, search_vars, fn_vars, complete_vars, index_vars, crumb_vars>>

\* main --compare without --out and without --index: the block ends without
\* leaving main, no later mode is asked, and the index check raises SystemExit
CompareModeNoIndex ==
    /\ cpc = "idle"
    /\ ~cargs.out
    /\ ~cargs.index
    /\ \E chat_ok \in BOOLEAN :
         /\ exp' = compare_exp(item_files, RA, RB, cargs.explain, chat_ok)
         /\ ext' = ext \o compare_calls(cargs.explain, chat_ok)
    /\ cpc' = "error"
    /\ UNCHANGED <<item_files, RA, RB, mode_vars,
                   chunk_vars, search_vars, fn_vars, complete_vars, index_vars, crumb_vars>>

\* main --compare without --out and with --index: the run goes on into the
\* index-backed modes
CompareModeWithIndex ==
    /\ cpc = "idle"
    /\ ~cargs.out
    /\ cargs.index
    /\ \E chat_ok \in BOOLEAN :
         /\ exp' = compare_exp(item_files, RA, RB, cargs.explain, chat_ok)
         /\ ext' = ext \o compare_calls(cargs.explain, chat_ok)
    /\ cpc' = "search"
    /\ UNCHANGED <<item_files, RA, RB, mode_vars,
                   chunk_vars, search_vars, fn_vars, complete_vars, index_vars, crumb_vars>>

CompareModeNext ==
    \/ CompareModeEmbedFails
    \/ CompareModeOut
    \/ CompareModeNoIndex
    \/ CompareModeWithIndex

\* the chunks given to --compare
CompareChunks == [type : {"room", "design"}, items : { <<>>, <<"i1">>, <<"i2", "i3">> }]

InitCompareMode ==
    /\ in_dir = <<>>
    /\ store = [p \in {} |-> NoneId]
    /\ total = 0
    /\ chunks = <<>>
    /\ runs = 0
    /\ meta = <<>> /\ sims_full = <<>> /\ search = <<>>
    /\ candidates = <<>> /\ top_rel = <<>> /\ top_idxs = <<>>
    /\ spc = "idle"
    /\ item_files = ItemFiles
    /\ RA \in CompareChunks
    /\ RB \in CompareChunks
    /\ exp = <<>>
    /\ cpc = "idle"
    /\ cargs \in [out : BOOLEAN, explain : BOOLEAN, index : BOOLEAN]
    /\ report = <<>>
    /\ ext = <<>>
    /\ room_files = <<>> /\ seed = <<>> /\ creq = <<>> /\ payload = <<>>
    /\ kpc = "idle"
    /\ ifiles = <<>> /\ texts = <<>> /\ meta_lines = <<>> /\ requests = <<>>
    /\ vecs = <<>> /\ index_dir = <<>> /\ ipc = "idle"
    /\ by_id = <<>> /\ doc = <<>> /\ trail = <<>> /\ bpc = "idle"
    /\ pts = <<>> /\ pts_area = <<>>
    /\ item_names = <<>> /\ room_type = "None"
    /\ chat_srv = <<>> /\ posts = <<>> /\ chat_ret = <<>> /\ hpc = "idle"
    /\ itemsA = <<>> /\ itemsB = <<>> /\ rollup = <<>> /\ rpc = "idle"

SpecCompareMode == InitCompareMode /\ [][CompareModeNext]_vars

\* C19: --compare needs no index: with two chunk paths and no --index, and
\* the embeddings answering, the run ends normally without entering another
\* mode, and with --out the file holds the comparison export, of kind compare.
C19_CompareWithoutIndex ==
    (/\ cpc # "idle"
     /\ ~cargs.index
     /\ \A i \in DOMAIN ext : ext[i].svc = "embed" => ext[i].ok) =>
        /\ cpc = "done"
        /\ cargs.out => (report # <<>> /\ report.kind = "compare")

(***************************************************************************)
(* Claims on the breadcrumb of a cyclic parent_id graph                    *)
(***************************************************************************)

\* the loop of breadcrumb from cur with n turns left: the ids of the
\* documents whose label it appends to chain, leaf first
RECURSIVE crumb_visits(_, _, _, _)
crumb_visits(cur, ids, seen, n) ==
    IF n = 0 \/ cur = NoDoc THEN <<>>
    ELSE <<cur.id>> \o
         (IF cur.parent_id = NoId \/ cur.parent_id \in seen THEN <<>>
          ELSE crumb_visits(ById(ids, cur.parent_id), ids, seen \cup {cur.parent_id}, n - 1))

\* C21: for any parent_id graph, a document that is its own parent and
\* cycles of any length included, breadcrumb stops as soon as a document met
\* before is reached again: the returned chain is the chain of the documents
\* visited, and no document is in it more than once.
C21_NoRepeatInChain ==
    bpc = "done" =>
        LET v == crumb_visits(doc, by_id, {}, CrumbDepth)
        IN  /\ trail = join(" > ", [i \in DOMAIN v |-> NodeText(by_id[v[Len(v) + 1 - i]])])
            /\ \A i, j \in DOMAIN v : i # j => v[i] # v[j]

(***************************************************************************)
(* Claims on overlapping areas, checked under SpecChunk                    *)
(***************************************************************************)

\* the last of a non-empty set of positions
Last(S) == CHOOSE a \in S : \A b \in S : b <= a

\* C22: an item whose point lies inside more than one area polygon of its
\* design has the room_id of the room built from the last of these areas in
\* the design's areas list.
C22_LastAreaWins ==
    runs >= 1 =>
      \A s \in DesignSites :
        LET d   == DesignAt(s)
            out == DesignChunks(s)
        IN  \A k \in DOMAIN d.items :
              LET cont == Containing(d, d.items[k])
              IN  Cardinality(cont) > 1 =>
                    out[1 + Len(d.areas) + k].room_id = out[1 + Last(cont)].chunk_id

(***************************************************************************)
(* Claims on ties in the ranking, checked under SpecSearch                 *)
(***************************************************************************)

\* C23: topk_indices is stable on ties: of two returned positions with equal
\* score the smaller one comes first, and a position left out never has the
\* score of a returned position that is larger than it.
C23_StableOnTies ==
    (spc = "done" /\ candidates # <<>>) =>
        /\ \A r, t \in DOMAIN top_rel :
              (r < t /\ CandidateSims[top_rel[r]] = CandidateSims[top_rel[t]])
                  => top_rel[r] < top_rel[t]
        /\ \A i \in DOMAIN CandidateSims \ Range(top_rel) : \A r \in DOMAIN top_rel :
              CandidateSims[i] = CandidateSims[top_rel[r]] => top_rel[r] < i

(***************************************************************************)
(* rag_stub.py : roll-ups of signature sets (aggregate_brand_type and      *)
(* relaxed_overlap). A signature is <<name, brand, type>>, all lowercased. *)
(* A Python set is iterated in an order of its own: a function that        *)
(* iterates one takes that order, a sequence holding each element once.    *)
(***************************************************************************)

\* the orders a set may be iterated in
Orders(S) ==
    {o \in [1..Cardinality(S) -> S] : \A i, j \in 1..Cardinality(S) : i # j => o[i] # o[j]}

\* a Counter fed the keys ks one by one: <<key, count>> per key, in the order
\* the keys were first counted
Counter(ks) ==
    LET firsts == SelectSeq([i \in DOMAIN ks |-> i],
                            LAMBDA i : \A j \in 1..(i - 1) : ks[j] # ks[i])
    IN  [q \in DOMAIN firsts |->
            <<ks[firsts[q]], Cardinality({j \in DOMAIN ks : ks[j] = ks[firsts[q]]})>>]

\* counter.most_common(n): highest count first, equal counts in the order the
\* keys were first counted
most_common(cnt, n) ==
    LET before(i, j) == cnt[i][2] > cnt[j][2] \/ (cnt[i][2] = cnt[j][2] /\ i < j)
        pos(j)       == 1 + Cardinality({i \in DOMAIN cnt : before(i, j)})
        sorted       == [q \in DOMAIN cnt |-> cnt[CHOOSE j \in DOMAIN cnt : pos(j) = q]]
    IN  SubSeq(sorted, 1, Min(n, Len(sorted)))

\* the n of top_n
TopN == 10

\* aggregate_brand_type(items_set), the set being iterated in the given order;
\* a pair is printed as brand, multiplication sign (here "x"), type
aggregate_brand_type(order) ==
    LET with_b  == SelectSeq(order, LAMBDA x : x[2] # <<>>)
        with_t  == SelectSeq(order, LAMBDA x : x[3] # <<>>)
        with_bt == SelectSeq(order, LAMBDA x : x[2] # <<>> /\ x[3] # <<>>)
        brands  == Counter([i \in DOMAIN with_b |-> with_b[i][2]])
        types   == Counter([i \in DOMAIN with_t |-> with_t[i][3]])
        pairs   == Counter([i \in DOMAIN with_bt |-> <<with_bt[i][2], with_bt[i][3]>>])
        top     == most_common(pairs, TopN)
    IN  [ brands_top |-> most_common(brands, TopN),
          types_top  |-> most_common(types, TopN),
          pairs_top  |-> [i \in DOMAIN top |->
                            << <<top[i][1][1], "x", top[i][1][2]>>, top[i][2] >>] ]

\* sigs(items): the Counter of (brand, type) over the items with a brand or a
\* type, as pair -> count
sigs(items) ==
    LET kept == {x \in items : x[2] # <<>> \/ x[3] # <<>>}
    IN  [k \in {<<x[2], x[3]>> : x \in kept} |->
            Cardinality({x \in kept : <<x[2], x[3]>> = k})]

\* name_by_sig(items): per pair the name of the item of that pair that the
\* iteration meets first; every choice some order of the set gives
name_by_sig(items) ==
    LET kept == {x \in items : x[2] # <<>> \/ x[3] # <<>>}
        keys == {<<x[2], x[3]>> : x \in kept}
    IN  {d \in [keys -> {x[1] : x \in kept}] :
            \A k \in keys : <<d[k], k[1], k[2]>> \in kept}

\* (b, t) < (b2, t2) on tuples of Python strings
PairLess(p, q) == StrLess(p[1], q[1]) \/ (p[1] = q[1] /\ StrLess(p[2], q[2]))

\* sorted(keys) for a set of pairs
SortedPairs(keys) ==
    LET pos(k) == 1 + Cardinality({j \in keys : PairLess(j, k)})
    IN  [q \in 1..Cardinality(keys) |-> CHOOSE k \in keys : pos(k) = q]

\* relaxed_overlap with each shared pair reporting its count in A
relaxed_overlap_count_a(A_items, B_items, nameA, nameB) ==
    LET A == sigs(A_items)
        B == sigs(B_items)
        shared_keys == SortedPairs(DOMAIN A \cap DOMAIN B)
        only_a_keys == SortedPairs(DOMAIN A \ DOMAIN B)
        only_b_keys == SortedPairs(DOMAIN B \ DOMAIN A)
        all_a       == SortedPairs(DOMAIN A)
        all_b       == SortedPairs(DOMAIN B)
    IN  [ shared |-> [i \in DOMAIN shared_keys |->
                        LET k == shared_keys[i]
                        IN  <<OrDash(k[1]), OrDash(k[2]), A[k]>>],
          only_a |-> [i \in DOMAIN only_a_keys |->
                        LET k == only_a_keys[i]
                        IN  <<OrDash(k[1]), OrDash(k[2]), A[k], nameA[k]>>],
          only_b |-> [i \in DOMAIN only_b_keys |->
                        LET k == only_b_keys[i]
                        IN  <<OrDash(k[1]), OrDash(k[2]), B[k], nameB[k]>>],
          counts |-> [ shared  |-> SumSeq([i \in DOMAIN shared_keys |-> A[shared_keys[i]]]),
                       a_total |-> SumSeq([i \in DOMAIN all_a |-> A[all_a[i]]]),
                       b_total |-> SumSeq([i \in DOMAIN all_b |-> B[all_b[i]]]) ] ]

\* relaxed_overlap(itemsA, itemsB), nameA and nameB being what name_by_sig
\* built for the two sets
relaxed_overlap(A_items, B_items, nameA, nameB) ==
    LET A == sigs(A_items)
        B == sigs(B_items)
        shared_keys == SortedPairs(DOMAIN A \cap DOMAIN B)
        only_a_keys == SortedPairs(DOMAIN A \ DOMAIN B)
        only_b_keys == SortedPairs(DOMAIN B \ DOMAIN A)
        all_a       == SortedPairs(DOMAIN A)
        all_b       == SortedPairs(DOMAIN B)
    IN  [ shared |-> [i \in DOMAIN shared_keys |->
                        LET k == shared_keys[i]
                        IN  <<OrDash(k[1]), OrDash(k[2]), Min(A[k], B[k])>>],
          only_a |-> [i \in DOMAIN only_a_keys |->
                        LET k == only_a_keys[i]
                        IN  <<OrDash(k[1]), OrDash(k[2]), A[k], nameA[k]>>],
          only_b |-> [i \in DOMAIN only_b_keys |->
                        LET k == only_b_keys[i]
                        IN  <<OrDash(k[1]), OrDash(k[2]), B[k], nameB[k]>>],
          counts |-> [ shared  |-> SumSeq([i \in DOMAIN shared_keys |->
                                             Min(A[shared_keys[i]], B[shared_keys[i]])]),
                       a_total |-> SumSeq([i \in DOMAIN all_a |-> A[all_a[i]]]),
                       b_total |-> SumSeq([i \in DOMAIN all_b |-> B[all_b[i]]]) ] ]

\* aggregate_brand_type(Ia) is called
AggregateBrandType ==
    /\ rpc = "idle"
    /\ \E o \in Orders(itemsA) : rollup' = aggregate_brand_type(o)
    /\ rpc' = "aggregate"
    /\ UNCHANGED <<itemsA, itemsB, ollama_vars, guess_vars, poly_vars, chunk_vars, search_vars, compare_vars, rest_vars>>

\* relaxed_overlap(Ia, Ib) is called
RelaxedOverlap ==
    /\ rpc = "idle"
    /\ \E na \in name_by_sig(itemsA), nb \in name_by_sig(itemsB) :
         rollup' = relaxed_overlap(itemsA, itemsB, na, nb)
    /\ rpc' = "relaxed"
    /\ UNCHANGED <<itemsA, itemsB, ollama_vars, guess_vars, poly_vars, chunk_vars, search_vars, compare_vars, rest_vars>>

RollupNext ==
    \/ AggregateBrandType
    \/ RelaxedOverlap

chair == <<"c", "h", "a", "i", "r">>
couch == <<"c", "o", "u", "c", "h">>
rug   == <<"r", "u", "g">>

\* the signatures item_keys_for_room may give: two sofas of one brand under
\* different names, a lamp, a chair known by its name only, a lamp without
\* brand, a rug without type
Signatures ==
    { <<sofa, brandx, sofa>>, <<couch, brandx, sofa>>, <<lamp, brandy, lamp>>,
      <<chair, <<>>, <<>>>>, <<lamp, <<>>, lamp>>, <<rug, brandx, <<>>>> }

MaxSigs == 3

\* two signature sets of up to MaxSigs signatures each
InitRollup ==
    /\ in_dir = <<>>
    /\ store = [p \in {} |-> NoneId]
    /\ total = 0
    /\ chunks = <<>>
    /\ runs = 0
    /\ meta = <<>> /\ sims_full = <<>> /\ search = <<>>
    /\ candidates = <<>> /\ top_rel = <<>> /\ top_idxs = <<>>
    /\ spc = "idle"
    /\ item_files = <<>> /\ RA = <<>> /\ RB = <<>> /\ exp = <<>> /\ cpc = "idle"
    /\ cargs = <<>> /\ report = <<>> /\ ext = <<>>
    /\ room_files = <<>> /\ seed = <<>> /\ creq = <<>> /\ payload = <<>>
    /\ kpc = "idle"
    /\ ifiles = <<>> /\ texts = <<>> /\ meta_lines = <<>> /\ requests = <<>>
    /\ vecs = <<>> /\ index_dir = <<>> /\ ipc = "idle"
    /\ by_id = <<>> /\ doc = <<>> /\ trail = <<>> /\ bpc = "idle"
    /\ pts = <<>> /\ pts_area = <<>>
    /\ item_names = <<>> /\ room_type = "None"
    /\ chat_srv = <<>> /\ posts = <<>> /\ chat_ret = <<>> /\ hpc = "idle"
    /\ itemsA \in {S \in SUBSET Signatures : Cardinality(S) <= MaxSigs}
    /\ itemsB \in {S \in SUBSET Signatures : Cardinality(S) <= MaxSigs}
    /\ rollup = <<>>
    /\ rpc = "idle"

SpecRollup == InitRollup /\ [][RollupNext]_vars

(***************************************************************************)
(* Claims on the roll-ups                                                  *)
(***************************************************************************)

\* the (brand, type) pairs of a signature set, those with both empty dropped
Collapsed(items) ==
    {<<x[2], x[3]>> : x \in {y \in items : y[2] # <<>> \/ y[3] # <<>>}}

\* how many signatures of the set collapse to the pair
CountIn(items, k) == Cardinality({x \in items : <<x[2], x[3]>> = k})

\* the pairs a list of relaxed_overlap reports
PairsOf(rows) == {<<rows[i][1], rows[i][2]>> : i \in DOMAIN rows}

\* the pairs of a set as they are printed
Dashed(keys) == {<<OrDash(k[1]), OrDash(k[2])>> : k \in keys}

\* C24: relaxed_overlap collapses every signature to (brand, type), the name
\* ignored and the pairs with brand and type both empty dropped; its shared,
\* only_a and only_b pairs are the intersection and the two differences of
\* the collapsed pair sets; each shared pair reports min(count in A, count in
\* B); counts.shared is the sum of these minima and is at most
\* min(a_total, b_total).
C24_RelaxedOverlap ==
    rpc = "relaxed" =>
        LET PA == Collapsed(itemsA)
            PB == Collapsed(itemsB)
        IN  /\ PairsOf(rollup.shared) = Dashed(PA \cap PB)
            /\ PairsOf(rollup.only_a) = Dashed(PA \ PB)
            /\ PairsOf(rollup.only_b) = Dashed(PB \ PA)
            /\ Len(rollup.shared) = Cardinality(PA \cap PB)
            /\ \A k \in PA \cap PB : \E i \in DOMAIN rollup.shared :
                  rollup.shared[i] = <<OrDash(k[1]), OrDash(k[2]),
                                       Min(CountIn(itemsA, k), CountIn(itemsB, k))>>
            /\ rollup.counts.shared = SumSeq([i \in DOMAIN rollup.shared |-> rollup.shared[i][3]])
            /\ rollup.counts.shared <= Min(rollup.counts.a_total, rollup.counts.b_total)

\* a pair shared by two sofas of A and one of B, with a signature without
\* brand and type dropped and a pair left to each side
C24_Witness ==
    /\ rpc = "relaxed"
    /\ \E i \in DOMAIN rollup.shared :
          /\ rollup.shared[i][3] = 1
          /\ CountIn(itemsA, <<brandx, sofa>>) = 2
          /\ rollup.shared[i][1] = brandx
    /\ <<chair, <<>>, <<>>>> \in itemsB
    /\ rollup.only_a # <<>>
    /\ rollup.only_b # <<>>

\* the keys with their counts, highest count first and equal counts in the
\* order less gives, cut after TopN
Ranked(keys, count, less(_, _)) ==
    LET pos(k) == 1 + Cardinality({j \in keys :
                          count[j] > count[k] \/ (count[j] = count[k] /\ less(j, k))})
        seq    == [q \in 1..Cardinality(keys) |->
                     LET k == CHOOSE k \in keys : pos(k) = q IN <<k, count[k]>>]
    IN  SubSeq(seq, 1, Min(TopN, Len(seq)))

\* C25: aggregate_brand_type counts, over a signature set, each non-empty
\* brand, each non-empty type and each (brand, type) pair with both
\* non-empty, and gives the top-N of each by descending count, equal counts
\* in lexicographic order of the label or pair, whatever the order in which
\* the set is iterated.
C25_AggregateTopN ==
    rpc = "aggregate" =>
        LET brands == {x[2] : x \in itemsA} \ {<<>>}
            types  == {x[3] : x \in itemsA} \ {<<>>}
            pairs  == {<<x[2], x[3]>> : x \in {y \in itemsA : y[2] # <<>> /\ y[3] # <<>>}}
            top    == Ranked(pairs, [k \in pairs |-> CountIn(itemsA, k)], PairLess)
        IN  /\ rollup.brands_top =
                 Ranked(brands, [b \in brands |-> Cardinality({x \in itemsA : x[2] = b})],
                        StrLess)
            /\ rollup.types_top =
                 Ranked(types, [t \in types |-> Cardinality({x \in itemsA : x[3] = t})],
                        StrLess)
            /\ rollup.pairs_top =
                 [i \in DOMAIN top |-> << <<top[i][1][1], "x", top[i][1][2]>>, top[i][2] >>]

(***************************************************************************)
(* Room completion over rooms that hold two items of one brand and type    *)
(***************************************************************************)

\* the item files of the completion runs and a couch: a second item of the
\* sofa's brand and type under another name
TwinCatalog ==
    [iid \in DOMAIN CatalogFiles \cup {"i7"} |->
        IF iid = "i7"
        THEN [k \in {"name", "brand", "type_guess"} |->
                 CASE k = "name" -> <<"C", "o", "u", "c", "h">> [] k = "brand" -> BrandX
                   [] OTHER -> sofa]
        ELSE CatalogFiles[iid]]

\* the item lists of the stored rooms: a lamp alone, with a sofa and a couch,
\* with a rug
TwinRoomLists == { <<"i3">>, <<"i3", "i1", "i7">>, <<"i3", "i6">> }

\* the item lists of a virtual seed
TwinSeeds == { <<"i3">> }

InitTwin ==
    /\ in_dir = <<>>
    /\ store = [p \in {} |-> NoneId]
    /\ total = 0
    /\ chunks = <<>>
    /\ runs = 0
    /\ meta = <<>> /\ sims_full = <<>> /\ search = <<>>
    /\ candidates = <<>> /\ top_rel = <<>> /\ top_idxs = <<>>
    /\ spc = "idle"
    /\ item_files = TwinCatalog
    /\ RA = <<>> /\ RB = <<>> /\ exp = <<>> /\ cpc = "idle"
    /\ cargs = <<>> /\ report = <<>> /\ ext = <<>>
    /\ \E n \in 1..MaxRooms :
         /\ room_files \in [1..n -> [items : TwinRoomLists]]
         /\ seed \in [kind : {"stored"}, room : 1..n]
                     \cup [kind : {"virtual"}, items : TwinSeeds]
    /\ creq \in [neighbors : 1..MaxNeighbors, topn : 1..MaxTopN,
                 style : {None, "classic"}]
    /\ payload = <<>>
    /\ kpc = "idle"
    /\ ifiles = <<>> /\ texts = <<>> /\ meta_lines = <<>> /\ requests = <<>>
    /\ vecs = <<>> /\ index_dir = <<>> /\ ipc = "idle"
    /\ by_id = <<>> /\ doc = <<>> /\ trail = <<>> /\ bpc = "idle"
    /\ pts = <<>> /\ pts_area = <<>>
    /\ item_names = <<>> /\ room_type = "None"
    /\ chat_srv = <<>> /\ posts = <<>> /\ chat_ret = <<>> /\ hpc = "idle"
    /\ itemsA = <<>> /\ itemsB = <<>> /\ rollup = <<>> /\ rpc = "idle"

SpecTwin == InitTwin /\ [][CompleteNext]_vars

\* the neighbors used that hold an item of the pair
RoomsWith(pr) ==
    {j \in DOMAIN payload.neighbors_used :
        \E x \in Range(item_keys_for_room(
                          room_files[payload.neighbors_used[j].path[2]], item_files)) :
            <<x[2], x[3]>> = pr}

\* C26: for every recommendation of a room completion, seen_in_neighbors is
\* the number of neighbors used that hold an item of that (brand, type) pair;
\* it is never larger than the number of neighbors used.
C26_SeenInNeighbors ==
    kpc = "done" =>
        \A i \in DOMAIN payload.recommendations :
            /\ payload.recommendations[i].seen_in_neighbors
                  = Cardinality(RoomsWith(RecPair(i)))
            /\ payload.recommendations[i].seen_in_neighbors
                  <= Len(payload.neighbors_used)

(***************************************************************************)
(* rag_stub.py : chat_ollama. The server's answer to a post is a record:   *)
(* [raises |-> TRUE] when requests.post raises (no connection, timeout),   *)
(* [status |-> n] otherwise. A streamed line is [json |-> FALSE] (blank or *)
(* not JSON) or a JSON object with done and, when it has them, the fields  *)
(* message (its content) and response. A piece is the sequence of its     *)
(* characters.                                                             *)
(***************************************************************************)

\* r.raise_for_status() raises
raise_for_status(status) == status >= 400 /\ status < 600

\* what one line adds to out in _consume_ndjson
line_pieces(line) ==
    IF ~line.json THEN <<>>
    ELSE (IF "message" \in DOMAIN line
          THEN (IF line.message # <<>> THEN <<line.message>> ELSE <<>>)
          ELSE <<>>)
         \o (IF "response" \in DOMAIN line THEN <<line.response>> ELSE <<>>)

\* the loop of _consume_ndjson: out, from line i on
RECURSIVE consume_from(_, _)
consume_from(lines, i) ==
    IF i > Len(lines) THEN <<>>
    ELSE line_pieces(lines[i])
         \o (IF lines[i].json /\ lines[i].done THEN <<>> ELSE consume_from(lines, i + 1))

\* _consume_ndjson reading on after a line that says done
consume_ndjson_past_done(lines) ==
    strip(Flatten(Flatten([i \in DOMAIN lines |-> line_pieces(lines[i])])))

\* _consume_ndjson(resp): "".join(out).strip()
consume_ndjson(lines) == strip(Flatten(consume_from(lines, 1)))

\* requests.post to /api/chat raises
ChatPostRaises ==
    /\ hpc = "idle"
    /\ "raises" \in DOMAIN chat_srv.chat
    /\ posts' = Append(posts, "/api/chat")
    /\ hpc' = "raised"
    /\ UNCHANGED <<chat_srv, chat_ret, rollup_vars, guess_vars, poly_vars, chunk_vars,
                   search_vars, compare_vars, rest_vars>>

\* /api/chat answers 404: FileNotFoundError, caught by the except clause
ChatMissing ==
    /\ hpc = "idle"
    /\ "status" \in DOMAIN chat_srv.chat
    /\ chat_srv.chat.status = 404
    /\ posts' = Append(posts, "/api/chat")
    /\ hpc' = "fallback"
    /\ UNCHANGED <<chat_srv, chat_ret, rollup_vars, guess_vars, poly_vars, chunk_vars,
                   search_vars, compare_vars, rest_vars>>

\* /api/chat answers another error status: raise_for_status raises
ChatError ==
    /\ hpc = "idle"
    /\ "status" \in DOMAIN chat_srv.chat
    /\ chat_srv.chat.status # 404
    /\ raise_for_status(chat_srv.chat.status)
    /\ posts' = Append(posts, "/api/chat")
    /\ hpc' = "raised"
    /\ UNCHANGED <<chat_srv, chat_ret, rollup_vars, guess_vars, poly_vars, chunk_vars,
                   search_vars, compare_vars, rest_vars>>

\* /api/chat answers: the stream is consumed and returned
ChatAnswers ==
    /\ hpc = "idle"
    /\ "status" \in DOMAIN chat_srv.chat
    /\ chat_srv.chat.status # 404
    /\ ~raise_for_status(chat_srv.chat.status)
    /\ posts' = Append(posts, "/api/chat")
    /\ chat_ret' = consume_ndjson(chat_srv.lines)
    /\ hpc' = "returned"
    /\ UNCHANGED <<chat_srv, rollup_vars, guess_vars, poly_vars, chunk_vars, search_vars,
                   compare_vars, rest_vars>>

\* requests.post to /api/generate raises
GeneratePostRaises ==
    /\ hpc = "fallback"
    /\ "raises" \in DOMAIN chat_srv.generate
    /\ posts' = Append(posts, "/api/generate")
    /\ hpc' = "raised"
    /\ UNCHANGED <<chat_srv, chat_ret, rollup_vars, guess_vars, poly_vars, chunk_vars,
                   search_vars, compare_vars, rest_vars>>

\* /api/generate answers a status >= 400: RuntimeError
GenerateError ==
    /\ hpc = "fallback"
    /\ "status" \in DOMAIN chat_srv.generate
    /\ chat_srv.generate.status >= 400
    /\ posts' = Append(posts, "/api/generate")
    /\ hpc' = "raised"
    /\ UNCHANGED <<chat_srv, chat_ret, rollup_vars, guess_vars, poly_vars, chunk_vars,
                   search_vars, compare_vars, rest_vars>>

\* /api/generate answers: the stream is consumed and returned
GenerateAnswers ==
    /\ hpc = "fallback"
    /\ "status" \in DOMAIN chat_srv.generate
    /\ chat_srv.generate.status < 400
    /\ posts' = Append(posts, "/api/generate")
    /\ chat_ret' = consume_ndjson(chat_srv.lines)
    /\ hpc' = "returned"
    /\ UNCHANGED <<chat_srv, rollup_vars, guess_vars, poly_vars, chunk_vars, search_vars,
                   compare_vars, rest_vars>>

OllamaNext ==
    \/ ChatPostRaises
    \/ ChatMissing
    \/ ChatError
    \/ ChatAnswers
    \/ GeneratePostRaises
    \/ GenerateError
    \/ GenerateAnswers

\* the answers of an endpoint
Answers == {[raises |-> TRUE]} \cup [status : {200, 400, 404, 500}]

\* the lines a stream is made of: a blank or broken line, a chat piece with a
\* leading blank, a generate piece with a trailing blank, an empty chat piece,
\* and a last line carrying both kinds of piece
StreamLines ==
    { [json |-> FALSE],
      [json |-> TRUE, message |-> <<" ", "a">>, done |-> FALSE],
      [json |-> TRUE, response |-> <<"b", " ">>, done |-> FALSE],
      [json |-> TRUE, message |-> <<>>, done |-> FALSE],
      [json |-> TRUE, message |-> <<"c">>, response |-> <<"d">>, done |-> TRUE] }

MaxLines == 3

\* a server and a stream of up to MaxLines lines
InitOllama ==
    /\ in_dir = <<>>
    /\ store = [p \in {} |-> NoneId]
    /\ total = 0
    /\ chunks = <<>>
    /\ runs = 0
    /\ meta = <<>> /\ sims_full = <<>> /\ search = <<>>
    /\ candidates = <<>> /\ top_rel = <<>> /\ top_idxs = <<>>
    /\ spc = "idle"
    /\ item_files = <<>> /\ RA = <<>> /\ RB = <<>> /\ exp = <<>> /\ cpc = "idle"
    /\ cargs = <<>> /\ report = <<>> /\ ext = <<>>
    /\ room_files = <<>> /\ seed = <<>> /\ creq = <<>> /\ payload = <<>>
    /\ kpc = "idle"
    /\ ifiles = <<>> /\ texts = <<>> /\ meta_lines = <<>> /\ requests = <<>>
    /\ vecs = <<>> /\ index_dir = <<>> /\ ipc = "idle"
    /\ by_id = <<>> /\ doc = <<>> /\ trail = <<>> /\ bpc = "idle"
    /\ pts = <<>> /\ pts_area = <<>>
    /\ item_names = <<>> /\ room_type = "None"
    /\ itemsA = <<>> /\ itemsB = <<>> /\ rollup = <<>> /\ rpc = "idle"
    /\ chat_srv \in [chat : Answers, generate : Answers,
                     lines : SeqsUpTo(StreamLines, MaxLines)]
    /\ posts = <<>>
    /\ chat_ret = <<>>
    /\ hpc = "idle"

SpecOllama == InitOllama /\ [][OllamaNext]_vars

(***************************************************************************)
(* Claims on chat_ollama                                                   *)
(***************************************************************************)

\* the endpoint answered with the status
Answered(a, status) == IF "status" \in DOMAIN a THEN a.status = status ELSE FALSE

\* the endpoint failed: no response, or an error status
FailedPost(a) == IF "status" \in DOMAIN a THEN a.status >= 400 ELSE TRUE

\* the lines up to the first one that says done, that one included
UpToDone ==
    LET L     == chat_srv.lines
        dones == {i \in DOMAIN L : L[i].json /\ L[i].done}
    IN  IF dones = {} THEN L
        ELSE SubSeq(L, 1, CHOOSE i \in dones : \A j \in dones : i <= j)

\* the text of the pieces streamed up to the first done marker
StreamedText ==
    Flatten(Flatten([i \in DOMAIN UpToDone |->
        LET l == UpToDone[i]
        IN  IF ~l.json THEN <<>>
            ELSE (IF "message" \in DOMAIN l THEN <<l.message>> ELSE <<>>)
                 \o (IF "response" \in DOMAIN l THEN <<l.response>> ELSE <<>>)]))

\* the protocol of a call: chat first, generate only after a 404 of chat, one
\* request each; the call fails on any other chat failure and on a failing
\* generate
FallbackProtocol ==
    /\ posts \in {<<>>, <<"/api/chat">>, <<"/api/chat", "/api/generate">>}
    /\ hpc \in {"returned", "raised"} =>
          /\ (Len(posts) = 2 <=> Answered(chat_srv.chat, 404))
          /\ (hpc = "raised" <=>
                \/ (FailedPost(chat_srv.chat) /\ ~Answered(chat_srv.chat, 404))
                \/ (Answered(chat_srv.chat, 404) /\ FailedPost(chat_srv.generate)))
    /\ hpc = "fallback" => (posts = <<"/api/chat">> /\ Answered(chat_srv.chat, 404))

\* C27 as stated: chat_ollama posts to the chat endpoint first and to the
\* generate endpoint if and only if chat answered 404, one request each at
\* most; any other chat failure and any generate status >= 400 make the call
\* fail; a successful call returns the concatenation of the streamed pieces
\* up to the first done marker.
C27_ReturnsConcatenation ==
    /\ FallbackProtocol
    /\ hpc = "returned" => chat_ret = StreamedText

\* C27 amended: the same protocol; a successful call returns the
\* concatenation of the streamed pieces up to the first done marker with
\* leading and trailing whitespace stripped.
C27_ChatFallback ==
    /\ FallbackProtocol
    /\ hpc = "returned" => chat_ret = strip(StreamedText)

\* a call that fell back to generate and returned a text cut at a done marker
\* that is not the last line, blanks stripped at either end
C27_Witness ==
    /\ hpc = "returned"
    /\ posts = <<"/api/chat", "/api/generate">>
    /\ \E i \in DOMAIN chat_srv.lines :
          /\ i < Len(chat_srv.lines)
          /\ chat_srv.lines[i].json /\ chat_srv.lines[i].done
    /\ chat_ret # StreamedText
    /\ Len(chat_ret) >= 3

(***************************************************************************)
(* fml_chunker.py : guess_room_type. A name is the sequence of its         *)
(* characters.                                                             *)
(***************************************************************************)

\* the keyword lists of guess_room_type, in the order of its rules
BedroomWords ==
    << <<"b", "e", "d">>,
       <<"n", "i", "g", "h", "t", "s", "t", "a", "n", "d">>,
       <<"d", "r", "e", "s", "s", "e", "r">>,
       <<"w", "a", "r", "d", "r", "o", "b", "e">> >>

\* "sofa" in joined or "couch" in joined
SeatingWords ==
    << <<"s", "o", "f", "a">>,
       <<"c", "o", "u", "c", "h">> >>

\* "tv" in joined or "television" in joined
ScreenWords ==
    << <<"t", "v">>,
       <<"t", "e", "l", "e", "v", "i", "s", "i", "o", "n">> >>

\* the kitchen fixtures
KitchenWords ==
    << <<"s", "t", "o", "v", "e">>,
       <<"s", "i", "n", "k">>,
       <<"f", "r", "i", "d", "g", "e">>,
       <<"k", "i", "t", "c", "h", "e", "n">>,
       <<"h", "o", "o", "d">>,
       <<"c", "a", "b", "i", "n", "e", "t">> >>

\* the washroom fixtures
WashroomWords ==
    << <<"t", "o", "i", "l", "e", "t">>,
       <<"w", "a", "s", "h", "b", "a", "s", "i", "n">>,
       <<"s", "h", "o", "w", "e", "r">>,
       <<"b", "a", "t", "h", "t", "u", "b">>,
       <<"b", "a", "t", "h">>,
       <<"w", "c">> >>

\* the office furniture
OfficeWords ==
    << <<"d", "e", "s", "k">>,
       <<"o", "f", "f", "i", "c", "e">>,
       <<"w", "o", "r", "k", "s", "t", "a", "t", "i", "o", "n">> >>

\* any(k in joined for k in words)
any_in(words, joined) == \E i \in DOMAIN words : Contains(words[i], joined)

\* guess_room_type with the kitchen rule tried before the bedroom rule
guess_room_type_kitchen_first(names) ==
    LET joined == join(" ", [i \in DOMAIN names |-> lower(names[i])])
    IN  IF any_in(KitchenWords, joined) THEN "kitchen"
        ELSE IF any_in(BedroomWords, joined) THEN "bedroom"
        ELSE IF any_in(SeatingWords, joined) /\ any_in(ScreenWords, joined) THEN "living"
        ELSE IF any_in(WashroomWords, joined) THEN "washroom"
        ELSE IF any_in(OfficeWords, joined) THEN "office"
        ELSE "unknown"

\* guess_room_type(item_names)
guess_room_type(names) ==
    LET joined == join(" ", [i \in DOMAIN names |-> lower(names[i])])
    IN  IF any_in(BedroomWords, joined) THEN "bedroom"
        ELSE IF any_in(SeatingWords, joined) /\ any_in(ScreenWords, joined) THEN "living"
        ELSE IF any_in(KitchenWords, joined) THEN "kitchen"
        ELSE IF any_in(WashroomWords, joined) THEN "washroom"
        ELSE IF any_in(OfficeWords, joined) THEN "office"
        ELSE "unknown"

\* normalize_area_to_room: room_type = guess_room_type(item_names)
GuessRoomType ==
    /\ room_type = None
    /\ room_type' = guess_room_type(item_names)
    /\ UNCHANGED <<item_names, rollup_vars, ollama_vars, poly_vars, chunk_vars, search_vars,
                   compare_vars, rest_vars>>

GuessNext ==
    \/ GuessRoomType

\* the display names of items: one per rule, and a chair that no rule knows
ItemNames ==
    { <<"B", "e", "d">>,
      <<"S", "o", "f", "a">>,
      <<"T", "V">>,
      <<"S", "i", "n", "k">>,
      <<"T", "o", "i", "l", "e", "t">>,
      <<"D", "e", "s", "k">>,
      <<"C", "h", "a", "i", "r">> }

MaxNames == 3

\* the names of up to MaxNames items inside a room
InitGuess ==
    /\ in_dir = <<>>
    /\ store = [p \in {} |-> NoneId]
    /\ total = 0
    /\ chunks = <<>>
    /\ runs = 0
    /\ meta = <<>> /\ sims_full = <<>> /\ search = <<>>
    /\ candidates = <<>> /\ top_rel = <<>> /\ top_idxs = <<>>
    /\ spc = "idle"
    /\ item_files = <<>> /\ RA = <<>> /\ RB = <<>> /\ exp = <<>> /\ cpc = "idle"
    /\ cargs = <<>> /\ report = <<>> /\ ext = <<>>
    /\ room_files = <<>> /\ seed = <<>> /\ creq = <<>> /\ payload = <<>>
    /\ kpc = "idle"
    /\ ifiles = <<>> /\ texts = <<>> /\ meta_lines = <<>> /\ requests = <<>>
    /\ vecs = <<>> /\ index_dir = <<>> /\ ipc = "idle"
    /\ by_id = <<>> /\ doc = <<>> /\ trail = <<>> /\ bpc = "idle"
    /\ itemsA = <<>> /\ itemsB = <<>> /\ rollup = <<>> /\ rpc = "idle"
    /\ chat_srv = <<>> /\ posts = <<>> /\ chat_ret = <<>> /\ hpc = "idle"
    /\ item_names \in SeqsUpTo(ItemNames, MaxNames)
    /\ room_type = None
    /\ pts = <<>> /\ pts_area = <<>>

SpecGuess == InitGuess /\ [][GuessNext]_vars

(***************************************************************************)
(* Claims on guess_room_type                                               *)
(***************************************************************************)

\* some name holds one of the words, whatever its case
Names(words) ==
    \E i \in DOMAIN item_names, w \in DOMAIN words : Contains(words[w], lower(item_names[i]))

\* C28: guess_room_type applies its rules first match wins in the order
\* bedroom, living (a seating word and a screen word both), kitchen,
\* washroom, office, else unknown: names with a bedroom and a kitchen word
\* give bedroom, a sofa without a tv does not give living, and an empty
\* name list gives unknown.
C28_RoomTypeRules ==
    room_type # None =>
        /\ room_type =
             (IF Names(BedroomWords) THEN "bedroom"
              ELSE IF Names(SeatingWords) /\ Names(ScreenWords) THEN "living"
              ELSE IF Names(KitchenWords) THEN "kitchen"
              ELSE IF Names(WashroomWords) THEN "washroom"
              ELSE IF Names(OfficeWords) THEN "office"
              ELSE "unknown")
        /\ (Names(BedroomWords) /\ Names(KitchenWords)) => room_type = "bedroom"
        /\ ~Names(ScreenWords) => room_type # "living"
        /\ item_names = <<>> => room_type = "unknown"

\* a bed, a sink and a sofa give bedroom
C28_Witness ==
    /\ room_type = "bedroom"
    /\ Names(KitchenWords)
    /\ Names(SeatingWords)
    /\ ~Names(ScreenWords)

(***************************************************************************)
(* Claims on degenerate polygons, checked under SpecChunk                  *)
(***************************************************************************)

\* the areas of the document of file f, in document order
AreasOf(f) ==
    LET floors == in_dir[f].fml.floors
    IN  Flatten([i \in DOMAIN floors |->
            Flatten([j \in DOMAIN floors[i].designs |-> floors[i].designs[j].areas])])

\* the room chunks of the list emitted for file f
RoomChunks(f) == SelectSeq(chunks[f], LAMBDA c : c.level = "room")

\* the area a room chunk reports: area_m2, or area_units2 when that is null
ReportedArea(c) == IF c.area_m2 # NoneNum THEN c.area_m2 ELSE c.area_units2

\* the plan coordinates tried as points
Grid == (0 - 1)..7

\* C29: a polygon with fewer than 3 usable points has area 0 and contains no
\* point: every area of a document still gets its room chunk, the room of
\* such an area reports area 0, and no item chunk has that room as room_id.
C29_DegeneratePolygon ==
    \A f \in DOMAIN chunks :
      (in_dir[f].parses /\ chunks[f] # <<>>) =>
        LET rooms == RoomChunks(f)
        IN  /\ [i \in DOMAIN rooms |-> rooms[i].raw] = AreasOf(f)
            /\ \A i \in DOMAIN rooms :
                 Len(usable_points(rooms[i].raw)) < 3 =>
                   /\ ReportedArea(rooms[i])[1] = 0
                   /\ \A x, y \in Grid :
                        ~point_in_polygon(x, y, usable_points(rooms[i].raw))
                   /\ \A k \in DOMAIN chunks[f] :
                        chunks[f][k].level = "item" =>
                            chunks[f][k].room_id # rooms[i].chunk_id

\* a design with a two-point area, a proper area and an item linked to the
\* room of the proper one
C29_Witness ==
    \E f \in DOMAIN chunks :
      /\ \E i \in DOMAIN chunks[f] :
           /\ chunks[f][i].level = "room"
           /\ Len(usable_points(chunks[f][i].raw)) < 3
      /\ \E k \in DOMAIN chunks[f] :
           /\ chunks[f][k].level = "item"
           /\ chunks[f][k].room_id # NoneId

(***************************************************************************)
(* fml_chunker.py : polygon_area on its own, over point sequences with     *)
(* integer coordinates                                                     *)
(***************************************************************************)

\* polygon_area(poly) is called
PolygonArea ==
    /\ pts_area = <<>>
    /\ pts_area' = polygon_area(pts)
    /\ UNCHANGED <<pts, rollup_vars, ollama_vars, guess_vars, chunk_vars, search_vars,
                   compare_vars, rest_vars>>

AreaNext ==
    \/ PolygonArea

MaxCoord == 1
MaxPts == 4

\* a sequence of 3 to MaxPts points with coordinates in 0..MaxCoord
InitArea ==
    /\ in_dir = <<>>
    /\ store = [p \in {} |-> NoneId]
    /\ total = 0
    /\ chunks = <<>>
    /\ runs = 0
    /\ meta = <<>> /\ sims_full = <<>> /\ search = <<>>
    /\ candidates = <<>> /\ top_rel = <<>> /\ top_idxs = <<>>
    /\ spc = "idle"
    /\ item_files = <<>> /\ RA = <<>> /\ RB = <<>> /\ exp = <<>> /\ cpc = "idle"
    /\ cargs = <<>> /\ report = <<>> /\ ext = <<>>
    /\ room_files = <<>> /\ seed = <<>> /\ creq = <<>> /\ payload = <<>>
    /\ kpc = "idle"
    /\ ifiles = <<>> /\ texts = <<>> /\ meta_lines = <<>> /\ requests = <<>>
    /\ vecs = <<>> /\ index_dir = <<>> /\ ipc = "idle"
    /\ by_id = <<>> /\ doc = <<>> /\ trail = <<>> /\ bpc = "idle"
    /\ itemsA = <<>> /\ itemsB = <<>> /\ rollup = <<>> /\ rpc = "idle"
    /\ chat_srv = <<>> /\ posts = <<>> /\ chat_ret = <<>> /\ hpc = "idle"
    /\ item_names = <<>> /\ room_type = None
    /\ \E n \in 3..MaxPts : pts \in [1..n -> [x : 0..MaxCoord, y : 0..MaxCoord]]
    /\ pts_area = <<>>

SpecArea == InitArea /\ [][AreaNext]_vars

(***************************************************************************)
(* Claims on polygon_area                                                  *)
(***************************************************************************)

\* the sequence started r points later, and the sequence backwards
Rotated(s, r) == [i \in DOMAIN s |-> s[((i + r - 1) % Len(s)) + 1]]
Backwards(s) == [i \in DOMAIN s |-> s[Len(s) + 1 - i]]

\* C30: for every point sequence of length >= 3 with integer coordinates,
\* polygon_area is not negative and is the same for every cyclic rotation of
\* the sequence and for the reversed sequence.
C30_AreaRotationReversal ==
    pts_area # <<>> =>
        /\ pts_area[1] >= 0 /\ pts_area[2] > 0
        /\ \A r \in 1..Len(pts) : polygon_area(Rotated(pts, r)) = pts_area
        /\ polygon_area(Backwards(pts)) = pts_area

\* four points of a polygon with an area, which are not their own reversal
C30_Witness ==
    /\ pts_area # <<>>
    /\ Len(pts) = 4
    /\ pts_area[1] > 0
    /\ Backwards(pts) # pts
    /\ Rotated(pts, 1) # pts

====
